---------------------------- MODULE InstrumentProofs ----------------------------
(***************************************************************************)
(* Theorems about the measuring instrument: the RQ0 battery (Battery) and  *)
(* the reading of one explanation (Claims), for any vocabulary, texts,     *)
(* replies, detectors, attributions and scores.                            *)
(***************************************************************************)
EXTENDS Battery, Claims, FiniteSetTheorems, SequenceTheorems, TLAPS

(***************************************************************************)
(* Numbers.                                                                *)
(***************************************************************************)
\* A set of numbers has a least one.
LEMMA LeastNatural ==
  ASSUME NEW S, S \subseteq Nat, S # {}
  PROVE  \E n \in S : \A m \in S : n <= m
<1> DEFINE segments == {0..n : n \in S}
<1>1. segments \subseteq FiniteSubsetsOf(Nat)
  <2>1. \A n \in Nat : 0..n \subseteq Nat /\ IsFiniteSet(0..n)
    BY FS_Interval
  <2> QED
    BY <2>1 DEF FiniteSubsetsOf
<1>2. segments # {}
  OBVIOUS
<1>3. PICK x \in segments : \A y \in segments : <<y, x>> \notin StrictSubsetOrdering(Nat)
  <2> HIDE DEF segments
  <2> QED
    BY <1>1, <1>2, FS_StrictSubsetOrderingWellFounded, WFMin
<1>4. PICK n \in S : x = 0..n
  OBVIOUS
<1>5. \A m \in S : n <= m
  <2> SUFFICES ASSUME NEW m \in S, m < n PROVE FALSE
    OBVIOUS
  <2> DEFINE low == 0..m  high == 0..n
  <2>1. low \subseteq high /\ low # high /\ low \in SUBSET Nat /\ high \in SUBSET Nat
    OBVIOUS
  <2>2. low \in segments
    OBVIOUS
  <2> HIDE DEF low, high, segments
  <2>3. <<low, high>> \in StrictSubsetOrdering(Nat)
    BY <2>1 DEF StrictSubsetOrdering
  <2> QED
    BY <1>3, <1>4, <2>2, <2>3 DEF high
<1> QED
  BY <1>5

\* Induction, of sets.
LEMMA Reached ==
  ASSUME NEW S, 0 \in S, \A n \in Nat : n \in S => n + 1 \in S
  PROVE  Nat \subseteq S
<1> SUFFICES ASSUME Nat \ S # {} PROVE FALSE
  OBVIOUS
<1>1. PICK n \in Nat \ S : \A m \in Nat \ S : n <= m
  BY LeastNatural
<1> QED
  BY <1>1

\* A recursion along 1..n, and that it has a solution.
Solves(g, n, start, step) ==
  g[0] = start /\ \A k \in 1..n : g[k] = step[k][g[k - 1]]

LEMMA Recursion ==
  ASSUME NEW n \in Nat, NEW S, NEW start \in S, NEW step \in [1..n -> [S -> S]]
  PROVE  \E g \in [0..n -> S] : Solves(g, n, start, step)
<1> DEFINE solved == {m \in Nat : m <= n => \E g \in [0..m -> S] : Solves(g, m, start, step)}
<1>1. 0 \in solved
  <2>1. Solves([k \in 0..0 |-> start], 0, start, step) /\ [k \in 0..0 |-> start] \in [0..0 -> S]
    BY DEF Solves
  <2> QED
    BY <2>1
<1>2. ASSUME NEW m \in Nat, m \in solved PROVE m + 1 \in solved
  <2> SUFFICES ASSUME m + 1 <= n PROVE \E g \in [0..(m + 1) -> S] : Solves(g, m + 1, start, step)
    OBVIOUS
  <2>1. PICK g \in [0..m -> S] : Solves(g, m, start, step)
    BY <1>2
  <2> DEFINE h == [k \in 0..(m + 1) |-> IF k <= m THEN g[k] ELSE step[m + 1][g[m]]]
  <2>2. step[m + 1] \in [S -> S] /\ g[m] \in S
    OBVIOUS
  <2>3. h \in [0..(m + 1) -> S]
    BY <2>2
  <2>4. Solves(h, m + 1, start, step)
    BY <2>1 DEF Solves
  <2> QED
    BY <2>3, <2>4
<1> HIDE DEF solved
<1>3. n \in solved
  BY <1>1, <1>2, Reached
<1> QED
  BY <1>3 DEF solved

\* A finite set of integers has a least and a largest one.
LEMMA Extremes ==
  ASSUME NEW S, IsFiniteSet(S), S \subseteq Int, S # {}
  PROVE  /\ Min(S) \in S /\ \A y \in S : Min(S) <= y
         /\ Max(S) \in S /\ \A y \in S : Max(S) >= y
<1> DEFINE Under(x) == {y \in S : y < x}
           Over(x) == {y \in S : y > x}
<1>1. ASSUME NEW x \in S
      PROVE  /\ Cardinality(Under(x)) \in Nat /\ Cardinality(Over(x)) \in Nat
             /\ \A y \in Under(x) : Cardinality(Under(y)) < Cardinality(Under(x))
             /\ \A y \in Over(x) : Cardinality(Over(y)) < Cardinality(Over(x))
  <2>1. IsFiniteSet(Under(x)) /\ IsFiniteSet(Over(x))
    <3>1. Under(x) \in SUBSET S /\ Over(x) \in SUBSET S
      OBVIOUS
    <3> HIDE DEF Under, Over
    <3> QED
      BY <3>1, FS_Subset
  <2>2. ASSUME NEW y \in Under(x) PROVE Cardinality(Under(y)) < Cardinality(Under(x))
    <3>1. y \in Under(x) /\ y \notin Under(y) /\ y \in Int /\ y < x
      OBVIOUS
    <3>2. \A w \in Under(y) : w \in Under(x)
      BY <3>1
    <3>3. Under(y) \in SUBSET Under(x) /\ Under(y) # Under(x)
      <4> HIDE DEF Under
      <4> QED
        BY <3>1, <3>2
    <3> HIDE DEF Under, Over
    <3> QED
      BY <2>1, <3>3, FS_Subset, FS_CardinalityType
  <2>3. ASSUME NEW y \in Over(x) PROVE Cardinality(Over(y)) < Cardinality(Over(x))
    <3>1. y \in Over(x) /\ y \notin Over(y) /\ y \in Int /\ y > x
      OBVIOUS
    <3>2. \A w \in Over(y) : w \in Over(x)
      BY <3>1
    <3>3. Over(y) \in SUBSET Over(x) /\ Over(y) # Over(x)
      <4> HIDE DEF Over
      <4> QED
        BY <3>1, <3>2
    <3> HIDE DEF Under, Over
    <3> QED
      BY <2>1, <3>3, FS_Subset, FS_CardinalityType
  <2>4. Cardinality(Under(x)) \in Nat /\ Cardinality(Over(x)) \in Nat
    BY <2>1, FS_CardinalityType
  <2> QED
    BY <2>2, <2>3, <2>4
<1>2. PICK x \in S : \A y \in S : Cardinality(Under(x)) <= Cardinality(Under(y))
  <2> DEFINE counts == {Cardinality(Under(z)) : z \in S}
  <2>1. counts \subseteq Nat /\ counts # {}
    BY <1>1
  <2>2. PICK n \in counts : \A m \in counts : n <= m
    <3> HIDE DEF counts
    <3> QED
      BY <2>1, LeastNatural
  <2> QED
    BY <2>2
<1>3. PICK z \in S : \A y \in S : Cardinality(Over(z)) <= Cardinality(Over(y))
  <2> DEFINE counts == {Cardinality(Over(w)) : w \in S}
  <2>1. counts \subseteq Nat /\ counts # {}
    BY <1>1
  <2>2. PICK n \in counts : \A m \in counts : n <= m
    <3> HIDE DEF counts
    <3> QED
      BY <2>1, LeastNatural
  <2> QED
    BY <2>2
<1>4. \A y \in S : x <= y
  <2> SUFFICES ASSUME NEW y \in S, y < x PROVE FALSE
    OBVIOUS
  <2>1. y \in Under(x)
    OBVIOUS
  <2> HIDE DEF Under, Over
  <2> QED
    BY <1>1, <1>2, <2>1
<1>5. \A y \in S : z >= y
  <2> SUFFICES ASSUME NEW y \in S, y > z PROVE FALSE
    OBVIOUS
  <2>1. y \in Over(z)
    OBVIOUS
  <2> HIDE DEF Under, Over
  <2> QED
    BY <1>1, <1>3, <2>1
<1> QED
  BY <1>4, <1>5 DEF Min, Max

(***************************************************************************)
(* Sorting.                                                                *)
(***************************************************************************)
StrictOrder(S, before) ==
  /\ \A x \in S : <<x, x>> \notin before
  /\ \A x, y \in S : x = y \/ <<x, y>> \in before \/ <<y, x>> \in before
  /\ \A x, y, z \in S : <<x, y>> \in before /\ <<y, z>> \in before => <<x, z>> \in before

Earlier(S, before, x) == Cardinality({y \in S : <<y, x>> \in before})

\* Sorting by a strict order lists every element once, in that order.
LEMMA Sorted ==
  ASSUME NEW S, IsFiniteSet(S), NEW before, StrictOrder(S, before)
  PROVE  LET order == InOrder(S, before)
         IN /\ Cardinality(S) \in Nat
            /\ order \in [1..Cardinality(S) -> S]
            /\ \A x \in S : Earlier(S, before, x) + 1 \in 1..Cardinality(S)
            /\ \A x \in S : order[Earlier(S, before, x) + 1] = x
            /\ \A r \in 1..Cardinality(S) : Earlier(S, before, order[r]) = r - 1
            /\ \A q, r \in 1..Cardinality(S) : q < r <=> <<order[q], order[r]>> \in before
<1> DEFINE n == Cardinality(S)
           places == 0..(n - 1)
           earlier == [x \in S |-> Cardinality({y \in S : <<y, x>> \in before})]
           order == InOrder(S, before)
<1>1. n \in Nat
  BY FS_CardinalityType
<1>2. \A x \in S : IsFiniteSet({y \in S : <<y, x>> \in before})
  <2> TAKE x \in S
  <2> DEFINE these == {y \in S : <<y, x>> \in before}
  <2>1. these \in SUBSET S
    OBVIOUS
  <2> HIDE DEF these
  <2>2. IsFiniteSet(these)
    BY <2>1, FS_Subset
  <2> QED
    BY <2>2 DEF these
<1>3. ASSUME NEW x \in S PROVE earlier[x] \in places
  <2> DEFINE these == {y \in S : <<y, x>> \in before}
  <2>1. these \in SUBSET S /\ x \notin these
    BY DEF StrictOrder
  <2>2. earlier[x] = Cardinality(these)
    OBVIOUS
  <2> HIDE DEF these, earlier
  <2>3. Cardinality(these) \in Nat /\ Cardinality(these) <= n /\ Cardinality(these) # n
    BY <2>1, FS_Subset, FS_CardinalityType
  <2> QED
    BY <2>2, <2>3, <1>1
<1>4. ASSUME NEW x \in S, NEW y \in S, <<x, y>> \in before PROVE earlier[x] < earlier[y]
  <2> DEFINE Before(z) == {w \in S : <<w, z>> \in before}
  <2>1. x \in Before(y) /\ x \notin Before(x)
    BY <1>4 DEF StrictOrder
  <2>2. \A w \in Before(x) : w \in Before(y)
    BY <1>4 DEF StrictOrder
  <2>3. earlier[x] = Cardinality(Before(x)) /\ earlier[y] = Cardinality(Before(y))
    OBVIOUS
  <2>4. IsFiniteSet(Before(x)) /\ IsFiniteSet(Before(y))
    BY <1>2
  <2> HIDE DEF Before, earlier
  <2>5. Before(x) \in SUBSET Before(y) /\ Before(x) # Before(y)
    BY <2>1, <2>2
  <2> QED
    BY <2>3, <2>4, <2>5, FS_Subset, FS_CardinalityType
<1>5. \A x, y \in S : earlier[x] = earlier[y] => x = y
  <2> SUFFICES ASSUME NEW x \in S, NEW y \in S, earlier[x] = earlier[y], x # y PROVE FALSE
    OBVIOUS
  <2> HIDE DEF earlier
  <2>1. earlier[x] \in Int /\ earlier[y] \in Int
    BY <1>1, <1>3
  <2>2. <<x, y>> \in before \/ <<y, x>> \in before
    BY DEF StrictOrder
  <2> QED
    BY <1>4, <2>1, <2>2
<1>6. \A r \in 1..n : \E x \in S : earlier[x] = r - 1
  <2>0. earlier \in [S -> places]
    BY <1>3
  <2> HIDE DEF earlier
  <2>1. earlier \in Injection(S, places)
    BY <2>0, <1>5 DEF Injection, IsInjective
  <2>2. IsFiniteSet(places) /\ Cardinality(places) = n
    BY <1>1, FS_Interval, SMTT(30)
  <2> HIDE DEF places
  <2>3. earlier \in Surjection(S, places)
    BY <2>1, <2>2, FS_Injection
  <2>4. \A p \in places : \E x \in S : earlier[x] = p
    BY <2>3 DEF Surjection
  <2> QED
    BY <1>1, <2>4 DEF places
<1>7. order = [r \in 1..n |-> CHOOSE x \in S : earlier[x] = r - 1]
  BY DEF InOrder
<1>8. \A r \in 1..n : order[r] = CHOOSE x \in S : earlier[x] = r - 1
  BY <1>7
<1>9. \A x \in S : earlier[x] = Earlier(S, before, x)
  BY DEF Earlier
<1> HIDE DEF earlier, order
<1>10. \A r \in 1..n : order[r] \in S /\ earlier[order[r]] = r - 1
  BY <1>6, <1>8
<1>11. \A x \in S : earlier[x] + 1 \in 1..n /\ order[earlier[x] + 1] = x
  <2> TAKE x \in S
  <2>1. earlier[x] + 1 \in 1..n /\ earlier[x] \in Int
    BY <1>1, <1>3
  <2>2. earlier[order[earlier[x] + 1]] = earlier[x]
    BY <1>10, <2>1
  <2> QED
    BY <1>5, <1>10, <2>1, <2>2
<1>12. ASSUME NEW q \in 1..n, NEW r \in 1..n PROVE q < r <=> <<order[q], order[r]>> \in before
  <2>1. order[q] \in S /\ order[r] \in S
    BY <1>10
  <2>2. earlier[order[q]] = q - 1 /\ earlier[order[r]] = r - 1
    BY <1>10
  <2>3. <<order[q], order[r]>> \in before => q < r
    BY <1>4, <2>1, <2>2
  <2>4. <<order[r], order[q]>> \in before => r < q
    BY <1>4, <2>1, <2>2
  <2>5. order[q] = order[r] => q = r
    BY <2>2
  <2> QED
    BY <2>1, <2>3, <2>4, <2>5 DEF StrictOrder
<1>13. order \in [1..n -> S]
  BY <1>7, <1>10
<1> QED
  BY <1>1, <1>9, <1>10, <1>11, <1>12, <1>13 DEF order

\* Sorting a sequence, largest key first, changes places only.
LEMMA LargestFirstSorts ==
  ASSUME NEW n \in Nat, NEW key \in [1..n -> Int]
  PROVE  LET order == LargestFirst(key)
         IN /\ order \in [1..n -> 1..n]
            /\ \A i \in 1..n : \E r \in 1..n : order[r] = i
            /\ \A q, r \in 1..n : order[q] = order[r] => q = r
            /\ \A q, r \in 1..n : q < r => key[order[q]] >= key[order[r]]
<1> DEFINE S == 1..n
           before == {p \in S \X S :
                        key[p[1]] > key[p[2]] \/ (key[p[1]] = key[p[2]] /\ p[1] < p[2])}
           order == InOrder(S, before)
<1>1. IsFiniteSet(S) /\ Cardinality(S) = n
  BY FS_Interval
<1>2. \A x, y \in S :
        <<x, y>> \in before <=> key[x] > key[y] \/ (key[x] = key[y] /\ x < y)
  OBVIOUS
<1>3. LargestFirst(key) = order
  BY DEF LargestFirst
<1>4. StrictOrder(S, before)
  <2>1. \A x \in S : x \in Int /\ key[x] \in Int
    OBVIOUS
  <2> HIDE DEF S, before
  <2>2. \A x \in S : <<x, x>> \notin before
    BY <1>2, <2>1
  <2>3. ASSUME NEW x \in S, NEW y \in S
        PROVE  x = y \/ <<x, y>> \in before \/ <<y, x>> \in before
    <3>1. x < y \/ x = y \/ y < x
      BY <2>1
    <3>2. key[x] > key[y] \/ key[x] = key[y] \/ key[y] > key[x]
      BY <2>1
    <3> QED
      BY <1>2, <3>1, <3>2
  <2>4. ASSUME NEW x \in S, NEW y \in S, NEW z \in S, <<x, y>> \in before, <<y, z>> \in before
        PROVE  <<x, z>> \in before
    <3>1. key[x] > key[y] \/ (key[x] = key[y] /\ x < y)
      BY <1>2, <2>4
    <3>2. key[y] > key[z] \/ (key[y] = key[z] /\ y < z)
      BY <1>2, <2>4
    <3>3. key[x] > key[z] \/ (key[x] = key[z] /\ x < z)
      BY <2>1, <3>1, <3>2
    <3> QED
      BY <1>2, <3>3
  <2> QED
    BY <2>2, <2>3, <2>4 DEF StrictOrder
<1>5. /\ order \in [S -> S]
      /\ \A x \in S : \E r \in S : order[r] = x
      /\ \A q, r \in S : q < r <=> <<order[q], order[r]>> \in before
  <2> HIDE DEF before, order
  <2>1. /\ order \in [1..Cardinality(S) -> S]
        /\ \A x \in S : Earlier(S, before, x) + 1 \in 1..Cardinality(S)
        /\ \A x \in S : order[Earlier(S, before, x) + 1] = x
        /\ \A q, r \in 1..Cardinality(S) : q < r <=> <<order[q], order[r]>> \in before
    <3> HIDE DEF S
    <3> QED
      BY <1>1, <1>4, Sorted DEF order
  <2> QED
    BY <1>1, <2>1
<1>6. \A q, r \in S : order[q] = order[r] => q = r
  <2> HIDE DEF before, order
  <2>1. \A q, r \in S : order[q] = order[r] => ~(q < r)
    BY <1>4, <1>5 DEF StrictOrder
  <2> QED
    BY <2>1
<1>7. \A q, r \in S : q < r => key[order[q]] >= key[order[r]]
  <2> TAKE q, r \in S
  <2> HAVE q < r
  <2>1. order[q] \in S /\ order[r] \in S /\ <<order[q], order[r]>> \in before
    BY <1>5
  <2> HIDE DEF order
  <2> QED
    BY <1>2, <2>1
<1> HIDE DEF order, before
<1> QED
  BY <1>3, <1>5, <1>6, <1>7

(***************************************************************************)
(* find_operating_point.                                                   *)
(***************************************************************************)
Calls(v, t, low) == IF low THEN 2 * v < t ELSE 2 * v > t

\* Finite samples of integer scores.
Sample(s) == IsFiniteSet(DOMAIN s) /\ \A i \in DOMAIN s : s[i] \in Int

LEMMA CalledIsACount ==
  ASSUME NEW s, Sample(s), NEW t, NEW low
  PROVE  /\ Called(s, t, low) \in Nat
         /\ Cardinality(DOMAIN s) \in Nat
         /\ (\A i \in DOMAIN s : ~Calls(s[i], t, low)) => Called(s, t, low) = 0
         /\ (\A i \in DOMAIN s : Calls(s[i], t, low)) => Called(s, t, low) = Cardinality(DOMAIN s)
<1> DEFINE these == {i \in DOMAIN s : IF low THEN 2 * s[i] < t ELSE 2 * s[i] > t}
<1>1. Called(s, t, low) = Cardinality(these)
  BY DEF Called
<1>2. these \in SUBSET DOMAIN s
  OBVIOUS
<1>3. \A i \in DOMAIN s : i \in these <=> Calls(s[i], t, low)
  BY DEF Calls
<1> HIDE DEF these
<1>4. IsFiniteSet(these)
  BY <1>2, FS_Subset DEF Sample
<1>5. (\A i \in DOMAIN s : ~Calls(s[i], t, low)) => these = {}
  BY <1>2, <1>3
<1>6. (\A i \in DOMAIN s : Calls(s[i], t, low)) => these = DOMAIN s
  BY <1>2, <1>3
<1> QED
  BY <1>1, <1>4, <1>5, <1>6, FS_CardinalityType, FS_EmptySet DEF Sample

\* The candidates beyond the scores.
LEMMA Ends ==
  ASSUME NEW x \in Int
  PROVE  /\ 2 * (x - Scale) \in Int /\ 2 * (x + Scale) \in Int
         /\ \A y \in Int : x <= y => 2 * y > 2 * (x - Scale)
  BY BatteryAssumption

LEMMA CandidatesAreFinite ==
  ASSUME NEW V, IsFiniteSet(V), V \subseteq Int, V # {}
  PROVE  IsFiniteSet(Candidates(V)) /\ Candidates(V) \subseteq Int /\ Candidates(V) # {}
<1> DEFINE lo == Min(V)  hi == Max(V)
           Above(a) == {b \in V : b > a}
           Following(a) == Min(Above(a))
           inner == {a + Following(a) : a \in V \ {hi}}
           ends == {2 * (lo - Scale), 2 * (hi + Scale)}
<1>1. Candidates(V) = IF Cardinality(V) = 1 THEN {2 * lo} ELSE ends \cup inner
  BY DEF Candidates
<1>2. /\ lo \in Int /\ lo \in V /\ \A y \in V : lo <= y
      /\ hi \in Int /\ hi \in V /\ \A y \in V : hi >= y
  BY Extremes
<1> HIDE DEF lo, hi
<1>3. ASSUME NEW a \in V \ {hi} PROVE a + Following(a) \in Int
  <2>1. a \in Int /\ hi > a
    BY <1>2
  <2>2. hi \in Above(a) /\ Above(a) \in SUBSET V
    BY <1>2, <2>1
  <2> HIDE DEF Above
  <2>3. IsFiniteSet(Above(a)) /\ Above(a) \subseteq Int /\ Above(a) # {}
    BY <2>2, FS_Subset
  <2>4. Following(a) \in Int
    BY <2>3, Extremes
  <2> HIDE DEF Following
  <2> QED
    BY <2>1, <2>4
<1>4. IsFiniteSet(inner) /\ inner \subseteq Int
  <2> DEFINE mid == [a \in V \ {hi} |-> a + Following(a)]
  <2> HIDE DEF Following
  <2>1. mid \in Surjection(V \ {hi}, inner) /\ inner \subseteq Int
    BY <1>3 DEF Surjection
  <2> HIDE DEF mid, inner
  <2>2. IsFiniteSet(V \ {hi})
    BY FS_RemoveElement
  <2> QED
    BY <2>1, <2>2, FS_Surjection
<1>5. IsFiniteSet(ends) /\ ends \subseteq Int /\ ends # {}
  <2> DEFINE x == 2 * (lo - Scale)  y == 2 * (hi + Scale)
  <2>1. x \in Int /\ y \in Int
    BY <1>2, Ends
  <2> HIDE DEF x, y
  <2>2. IsFiniteSet({x}) /\ IsFiniteSet({y}) /\ {x, y} = {x} \cup {y}
    BY FS_Singleton
  <2>3. IsFiniteSet({x, y})
    BY <2>2, FS_Union
  <2> QED
    BY <2>1, <2>3 DEF x, y
<1>6. IsFiniteSet({2 * lo}) /\ {2 * lo} \subseteq Int
  <2>1. 2 * lo \in Int
    BY <1>2
  <2> DEFINE x == 2 * lo
  <2> HIDE DEF x
  <2>2. IsFiniteSet({x})
    BY FS_Singleton
  <2> QED
    BY <2>1, <2>2 DEF x
<1> HIDE DEF ends, inner
<1>7. CASE Cardinality(V) = 1
  BY <1>1, <1>6, <1>7
<1>8. CASE Cardinality(V) # 1
  <2>1. Candidates(V) = ends \cup inner
    BY <1>1, <1>8
  <2>2. IsFiniteSet(ends \cup inner)
    BY <1>4, <1>5, FS_Union
  <2> QED
    BY <1>4, <1>5, <2>1, <2>2
<1> QED
  BY <1>7, <1>8

\* Some candidate divides the scores as a given threshold does, or both leave
\* them undivided.
LEMMA CandidateDivides ==
  ASSUME NEW V, IsFiniteSet(V), V \subseteq Int, V # {}, NEW low \in BOOLEAN, NEW t \in Int
  PROVE  \E u \in Candidates(V) :
           \/ \A v \in V : Calls(v, u, low) <=> Calls(v, t, low)
           \/ /\ (\A v \in V : Calls(v, t, low)) \/ (\A v \in V : ~Calls(v, t, low))
              /\ (\A v \in V : Calls(v, u, low)) \/ (\A v \in V : ~Calls(v, u, low))
<1>1. /\ Min(V) \in V /\ \A y \in V : Min(V) <= y
      /\ Max(V) \in V /\ \A y \in V : Max(V) >= y
  BY Extremes
<1>2. CASE Cardinality(V) = 1
  <2>1. PICK v : V = {v}
    BY <1>2, FS_Singleton
  <2>2. 2 * Min(V) \in Candidates(V)
    BY <1>2 DEF Candidates
  <2>3. Min(V) = v /\ v \in Int
    BY <1>1, <2>1
  <2>4. ~Calls(v, 2 * v, low)
    BY <2>3 DEF Calls
  <2>5. Calls(v, t, low) \/ ~Calls(v, t, low)
    OBVIOUS
  <2> QED
    BY <2>1, <2>2, <2>3, <2>4, <2>5
<1>3. CASE Cardinality(V) # 1 /\ ((\A v \in V : Calls(v, t, low)) \/ (\A v \in V : ~Calls(v, t, low)))
  <2> DEFINE u == 2 * (Min(V) - Scale)
  <2>1. u \in Candidates(V)
    BY <1>3 DEF Candidates
  <2>2. u \in Int /\ \A v \in V : v \in Int /\ 2 * v > u
    BY <1>1, Ends
  <2>3. (\A v \in V : Calls(v, u, low)) \/ (\A v \in V : ~Calls(v, u, low))
    <3> HIDE DEF u
    <3> QED
      BY <2>2 DEF Calls
  <2> HIDE DEF u
  <2> QED
    BY <1>3, <2>1, <2>3
<1>4. CASE Cardinality(V) # 1 /\ (\E v \in V : ~Calls(v, t, low)) /\ (\E v \in V : Calls(v, t, low))
  <2> DEFINE below == {v \in V : IF low THEN 2 * v < t ELSE 2 * v <= t}
             a == Max(below)
             above == {b \in V : b > a}
             u == a + Min(above)
  <2>0. \A v, w \in V : Calls(v, t, low) /\ ~Calls(w, t, low) => (v \in below <=> w \notin below)
    BY DEF Calls
  <2>1. below \in SUBSET V /\ below # {} /\ \E v \in V : v \notin below
    <3>1. below \in SUBSET V
      OBVIOUS
    <3> HIDE DEF below
    <3> QED
      BY <1>4, <2>0, <3>1
  <2>2. a \in below /\ \A y \in below : a >= y
    <3> HIDE DEF below
    <3>1. IsFiniteSet(below) /\ below \subseteq Int
      BY <2>1, FS_Subset
    <3> QED
      BY <2>1, <3>1, Extremes
  <2>3. a \in V /\ a \in Int /\ (IF low THEN 2 * a < t ELSE 2 * a <= t)
    BY <2>2
  <2>4. ASSUME NEW v \in V PROVE v \in above <=> v \notin below
    <3>1. v \in Int
      OBVIOUS
    <3>2. v \in below => ~(v > a)
      <4> HIDE DEF below, a
      <4> QED
        BY <2>2, <2>3, <3>1
    <3>3. v \notin below => v > a
      <4> HIDE DEF a
      <4> QED
        BY <2>3, <3>1
    <3> HIDE DEF below, a
    <3> QED
      BY <3>2, <3>3
  <2>5. above \in SUBSET V /\ above # {}
    <3> HIDE DEF below, a
    <3> QED
      BY <2>1, <2>4
  <2>6. Min(above) \in above /\ \A y \in above : Min(above) <= y
    <3> HIDE DEF above
    <3>1. IsFiniteSet(above) /\ above \subseteq Int
      BY <2>5, FS_Subset
    <3> QED
      BY <2>5, <3>1, Extremes
  <2>7. Min(above) \in Int /\ Min(above) > a /\ Min(above) \in V
    BY <2>3, <2>6
  <2>8. u \in Candidates(V)
    <3>1. a # Max(V)
      <4> HIDE DEF a, below, above
      <4> QED
        BY <1>1, <2>3, <2>7
    <3>2. u \in {x + Min({b \in V : b > x}) : x \in V \ {Max(V)}}
      <4> HIDE DEF a
      <4> QED
        BY <2>3, <3>1
    <3> QED
      BY <1>4, <3>2 DEF Candidates
  <2>9. ASSUME NEW v \in V PROVE Calls(v, u, low) <=> Calls(v, t, low)
    <3>1. v \in Int
      OBVIOUS
    <3>2. v \in below => 2 * v < u
      <4> HIDE DEF above, below, a
      <4> QED
        BY <2>2, <2>3, <2>7, <3>1
    <3>3. v \notin below => 2 * v > u
      <4> HIDE DEF above, below, a
      <4> QED
        BY <2>3, <2>4, <2>6, <2>7, <3>1
    <3>4. u \in Int
      <4> HIDE DEF above, a
      <4> QED
        BY <2>3, <2>7
    <3>5. v \in below <=> (IF low THEN 2 * v < t ELSE 2 * v <= t)
      OBVIOUS
    <3> HIDE DEF below, u
    <3> QED
      BY <3>1, <3>2, <3>3, <3>4, <3>5 DEF Calls
  <2> HIDE DEF u
  <2> QED
    BY <2>8, <2>9
<1> QED
  BY <1>2, <1>3, <1>4

\* Of finitely many candidates, some is best.
LEMMA BestExists ==
  ASSUME NEW C, IsFiniteSet(C), C # {}, NEW J \in [C -> Int]
  PROVE  \E t \in C : \A u \in C : J[u] <= J[t]
<1> DEFINE values == {J[u] : u \in C}
<1>1. J \in Surjection(C, values) /\ values \subseteq Int /\ values # {}
  BY DEF Surjection
<1>2. \A u \in C : J[u] \in values
  OBVIOUS
<1>3. \A v \in values : \E u \in C : v = J[u]
  OBVIOUS
<1> HIDE DEF values
<1>4. IsFiniteSet(values)
  BY <1>1, FS_Surjection
<1>5. Max(values) \in values /\ \A v \in values : Max(values) >= v
  BY <1>1, <1>4, Extremes
<1>6. PICK t \in C : J[t] = Max(values)
  BY <1>3, <1>5
<1> QED
  BY <1>2, <1>5, <1>6

\* No threshold has a larger Youden index than the operating point.
LEMMA OperatingPointIsBest ==
  ASSUME NEW f, Sample(f), NEW c, Sample(c), DOMAIN f # {} \/ DOMAIN c # {},
         NEW low \in BOOLEAN, NEW t \in Int
  PROVE  Youden(f, c, t, low) <= Youden(f, c, OperatingPoint(f, c, low), low)
<1> DEFINE V == Range(f) \cup Range(c)
           C == Candidates(V)
           J == [u \in C |-> Youden(f, c, u, low)]
           best == {x \in C : \A u \in C : Youden(f, c, u, low) <= Youden(f, c, x, low)}
<1>1. V \subseteq Int /\ V # {}
  BY DEF Sample, Range
<1>2. IsFiniteSet(V)
  <2>1. ASSUME NEW s, Sample(s) PROVE IsFiniteSet(Range(s))
    <3> DEFINE g == [i \in DOMAIN s |-> s[i]]
    <3>1. g \in Surjection(DOMAIN s, Range(s))
      BY DEF Surjection, Range
    <3> HIDE DEF g
    <3> QED
      BY <2>1, <3>1, FS_Surjection DEF Sample
  <2> QED
    BY <2>1, FS_Union
<1>3. (\A i \in DOMAIN f : f[i] \in V) /\ (\A i \in DOMAIN c : c[i] \in V)
  BY DEF Range
<1> HIDE DEF V
<1>4. IsFiniteSet(C) /\ C \subseteq Int /\ C # {}
  BY <1>1, <1>2, CandidatesAreFinite
<1> DEFINE n == Cardinality(DOMAIN f)  m == Cardinality(DOMAIN c)
<1>5. ASSUME NEW u
      PROVE  /\ Youden(f, c, u, low) = Called(c, u, low) * n - Called(f, u, low) * m
             /\ Called(f, u, low) \in Nat /\ Called(c, u, low) \in Nat
             /\ n \in Nat /\ m \in Nat
  BY CalledIsACount DEF Youden
<1>6. ASSUME NEW u PROVE Youden(f, c, u, low) \in Int
  BY <1>5
<1>7. J \in [C -> Int]
  BY <1>6
<1>8. PICK p \in C : \A u \in C : Youden(f, c, u, low) <= Youden(f, c, p, low)
  <2>1. PICK p \in C : \A u \in C : J[u] <= J[p]
    <3> HIDE DEF J, C
    <3> QED
      BY <1>4, <1>7, BestExists
  <2> QED
    BY <2>1
<1>9. OperatingPoint(f, c, low) = Min(best)
  BY DEF OperatingPoint, V
<1>10. OperatingPoint(f, c, low) \in best
  <2>1. best \in SUBSET C /\ best # {}
    BY <1>8
  <2> HIDE DEF best, C
  <2>2. IsFiniteSet(best) /\ best \subseteq Int
    BY <1>4, <2>1, FS_Subset
  <2> QED
    BY <1>9, <2>1, <2>2, Extremes
<1>11. \A u \in C : Youden(f, c, u, low) <= Youden(f, c, OperatingPoint(f, c, low), low)
  BY <1>10
<1>12. ASSUME NEW u, (\A v \in V : Calls(v, u, low)) \/ (\A v \in V : ~Calls(v, u, low))
       PROVE  Youden(f, c, u, low) = 0
  <2>1. CASE \A v \in V : Calls(v, u, low)
    <3>1. Called(f, u, low) = n /\ Called(c, u, low) = m
      BY <1>3, <2>1, CalledIsACount
    <3>2. m * n - n * m = 0
      BY <1>5
    <3> QED
      BY <1>5, <3>1, <3>2
  <2>2. CASE \A v \in V : ~Calls(v, u, low)
    <3>1. Called(f, u, low) = 0 /\ Called(c, u, low) = 0
      BY <1>3, <2>2, CalledIsACount
    <3>2. 0 * n - 0 * m = 0
      BY <1>5
    <3> QED
      BY <1>5, <3>1, <3>2
  <2> QED
    BY <1>12, <2>1, <2>2
<1>13. ASSUME NEW u, \A v \in V : Calls(v, u, low) <=> Calls(v, t, low)
       PROVE  Youden(f, c, u, low) = Youden(f, c, t, low)
  <2>1. ASSUME NEW s, \A i \in DOMAIN s : s[i] \in V PROVE Called(s, u, low) = Called(s, t, low)
    <3>1. {i \in DOMAIN s : IF low THEN 2 * s[i] < u ELSE 2 * s[i] > u}
            = {i \in DOMAIN s : IF low THEN 2 * s[i] < t ELSE 2 * s[i] > t}
      BY <1>13, <2>1 DEF Calls
    <3> QED
      BY <3>1 DEF Called
  <2> QED
    BY <1>3, <2>1 DEF Youden
<1>14. PICK u \in C :
         \/ \A v \in V : Calls(v, u, low) <=> Calls(v, t, low)
         \/ /\ (\A v \in V : Calls(v, t, low)) \/ (\A v \in V : ~Calls(v, t, low))
            /\ (\A v \in V : Calls(v, u, low)) \/ (\A v \in V : ~Calls(v, u, low))
  BY <1>1, <1>2, CandidateDivides
<1>15. Youden(f, c, t, low) = Youden(f, c, u, low)
  BY <1>12, <1>13, <1>14
<1> HIDE DEF C
<1> QED
  BY <1>11, <1>14, <1>15

(***************************************************************************)
(* Attributions and what B1 claims of them.                                *)
(***************************************************************************)
Row == [feature : Vocabulary, value : Int]

LEMMA AttributionsName ==
  ASSUME NEW a, IsAttribution(a)
  PROVE  FeaturesOf(a) = Vocabulary
<1>1. a \in Seq(Row) /\ \A f \in Vocabulary : \E i \in DOMAIN a : a[i].feature = f
  BY DEF IsAttribution, Row
<1>2. \A i \in DOMAIN a : a[i] \in Row
  BY <1>1, LenProperties
<1>3. \A i \in DOMAIN a : a[i].feature \in Vocabulary
  BY <1>2 DEF Row
<1> HIDE DEF Vocabulary
<1> QED
  BY <1>1, <1>3 DEF FeaturesOf

\* Ranking an attribution changes places only.
LEMMA RankedIsSorted ==
  ASSUME NEW a, IsAttribution(a)
  PROVE  /\ Len(a) \in Nat /\ DOMAIN a = 1..Len(a) /\ a \in Seq(Row)
         /\ Ranked(a) \in Seq(Row) /\ Len(Ranked(a)) = Len(a) /\ DOMAIN Ranked(a) = 1..Len(a)
         /\ \A i \in 1..Len(a) : Ranked(a)[i] \in Row
         /\ \A i \in 1..Len(a) : \E j \in 1..Len(a) : Ranked(a)[i] = a[j]
         /\ \A j \in 1..Len(a) : \E i \in 1..Len(a) : Ranked(a)[i] = a[j]
         /\ \A i, j \in 1..Len(a) : Ranked(a)[i].feature = Ranked(a)[j].feature => i = j
<1> DEFINE n == Len(a)
           key == [i \in DOMAIN a |-> Abs(a[i].value)]
           order == LargestFirst(key)
<1>1. a \in Seq(Row)
  BY DEF IsAttribution, Row
<1>2. n \in Nat /\ DOMAIN a = 1..n /\ a \in [1..n -> Row]
  BY <1>1, LenProperties
<1>3. key \in [1..n -> Int]
  BY <1>2 DEF Row, Abs
<1>4. Ranked(a) = [r \in 1..n |-> a[order[r]]]
  BY <1>2 DEF Ranked
<1> HIDE DEF key
<1>5. /\ order \in [1..n -> 1..n]
      /\ \A i \in 1..n : \E r \in 1..n : order[r] = i
      /\ \A q, r \in 1..n : order[q] = order[r] => q = r
  BY <1>2, <1>3, LargestFirstSorts
<1> HIDE DEF order
<1>6. Ranked(a) \in [1..n -> Row]
  BY <1>2, <1>4, <1>5
<1>7. Ranked(a) \in Seq(Row) /\ Len(Ranked(a)) = n
  <2>1. Ranked(a) \in Seq(Row)
    BY <1>2, <1>6, SeqDef
  <2> QED
    BY <1>2, <1>6, <2>1, LenProperties
<1>8. \A i \in 1..n : \E j \in 1..n : Ranked(a)[i] = a[j]
  BY <1>4, <1>5
<1>9. \A j \in 1..n : \E i \in 1..n : Ranked(a)[i] = a[j]
  BY <1>4, <1>5, SMTT(30)
<1>10. \A i, j \in 1..n : Ranked(a)[i].feature = Ranked(a)[j].feature => i = j
  <2>1. \A i, j \in 1..n : a[i].feature = a[j].feature => i = j
    BY <1>2 DEF IsAttribution
  <2>2. \A i \in 1..n : Ranked(a)[i] = a[order[i]] /\ order[i] \in 1..n
    BY <1>4, <1>5
  <2> SUFFICES ASSUME NEW i \in 1..n, NEW j \in 1..n,
                      Ranked(a)[i].feature = Ranked(a)[j].feature
               PROVE  i = j
    OBVIOUS
  <2>3. order[i] = order[j]
    BY <2>1, <2>2
  <2> QED
    BY <1>5, <2>3
<1> QED
  BY <1>1, <1>2, <1>6, <1>7, <1>8, <1>9, <1>10

\* The least of two lengths.
Least(m, n) == IF m < n THEN m ELSE n

LEMMA TopIsAPrefix ==
  ASSUME NEW a, IsAttribution(a)
  PROVE  /\ Least(TopK, Len(a)) \in 0..Len(a)
         /\ Top(a) \in Seq(Row) /\ Len(Top(a)) = Least(TopK, Len(a))
         /\ DOMAIN Top(a) = 1..Least(TopK, Len(a))
         /\ \A i \in 1..Least(TopK, Len(a)) : Top(a)[i] = Ranked(a)[i] /\ Top(a)[i] \in Row
<1> DEFINE m == Least(TopK, Len(a))
<1>1. m \in Nat /\ m <= Len(a)
  BY RankedIsSorted, TopKAssumption DEF Least
<1>2. Top(a) = SubSeq(Ranked(a), 1, m)
  BY RankedIsSorted, TopKAssumption DEF Top, Least
<1>3. \A i \in 1..m : Ranked(a)[i] \in Row
  BY <1>1, RankedIsSorted
<1> HIDE DEF m
<1>4. /\ SubSeq(Ranked(a), 1, m) \in Seq(Row)
      /\ Len(SubSeq(Ranked(a), 1, m)) = IF 1 <= m THEN m - 1 + 1 ELSE 0
      /\ \A i \in 1..(m - 1 + 1) : SubSeq(Ranked(a), 1, m)[i] = Ranked(a)[1 + i - 1]
  BY <1>1, <1>3, SubSeqProperties
<1>5. Top(a) \in Seq(Row) /\ Len(Top(a)) = m
  BY <1>1, <1>2, <1>4
<1>6. \A i \in 1..m : Top(a)[i] = Ranked(a)[i]
  BY <1>1, <1>2, <1>4
<1>7. DOMAIN Top(a) = 1..m
  BY <1>5, LenProperties
<1> QED
  BY <1>1, <1>3, <1>5, <1>6, <1>7 DEF m

IsList(s) == \E S : s \in Seq(S)

LEMMA ListsHaveLengths ==
  ASSUME NEW s, IsList(s)
  PROVE  Len(s) \in Nat /\ DOMAIN s = 1..Len(s) /\ s \in Seq(Range(s))
<1>1. PICK S : s \in Seq(S)
  BY DEF IsList
<1> QED
  BY <1>1, LenProperties, SeqOfRange

\* A function on 1..n is a list.
LEMMA FunctionsAreLists ==
  ASSUME NEW n \in Nat, NEW s, s = [i \in 1..n |-> s[i]]
  PROVE  IsList(s) /\ Len(s) = n
<1> DEFINE S == {s[i] : i \in 1..n}
<1>1. s \in [1..n -> S]
  OBVIOUS
<1>2. s \in Seq(S)
  <2> HIDE DEF S
  <2> QED
    BY <1>1, SeqDef
<1>3. DOMAIN s = 1..n
  OBVIOUS
<1> HIDE DEF S
<1> QED
  BY <1>2, <1>3, LenProperties DEF IsList

LEMMA FaithfulClaimsOf ==
  ASSUME NEW a, IsAttribution(a)
  PROVE  /\ IsList(FaithfulClaims(a)) /\ Len(FaithfulClaims(a)) = Least(TopK, Len(a))
         /\ DOMAIN FaithfulClaims(a) = 1..Least(TopK, Len(a))
         /\ \A i \in 1..Least(TopK, Len(a)) :
              FaithfulClaims(a)[i] = [feature |-> Ranked(a)[i].feature,
                                      direction |-> SignOf(Ranked(a)[i].value), rank |-> i,
                                      magnitude |-> Abs(Ranked(a)[i].value), evidence |-> None]
<1> DEFINE m == Least(TopK, Len(a))
           told == FaithfulClaims(a)
<1>1. /\ m \in Nat /\ DOMAIN Top(a) = 1..m
      /\ \A i \in 1..m : Top(a)[i] = Ranked(a)[i]
  BY TopIsAPrefix, RankedIsSorted
<1> HIDE DEF m
<1>2. told = [i \in 1..m |-> MakeClaim(Top(a)[i].feature, SignOf(Top(a)[i].value), i,
                                       Abs(Top(a)[i].value), None)]
  BY <1>1 DEF FaithfulClaims
<1>3. told = [i \in 1..m |-> told[i]] /\ DOMAIN told = 1..m
  BY <1>2
<1>4. \A i \in 1..m : told[i] = [feature |-> Ranked(a)[i].feature,
                                 direction |-> SignOf(Ranked(a)[i].value), rank |-> i,
                                 magnitude |-> Abs(Ranked(a)[i].value), evidence |-> None]
  BY <1>1, <1>2 DEF MakeClaim
<1> HIDE DEF told
<1>5. IsList(told) /\ Len(told) = m
  BY <1>1, <1>3, FunctionsAreLists
<1> QED
  BY <1>3, <1>4, <1>5 DEF told, m

(***************************************************************************)
(* The detector.                                                           *)
(***************************************************************************)
\* A detector as the battery meets it.
Met(d) ==
  \E names \in ClassLists : \E head \in HeadsOf(names) :
    d = [classes |-> names, head |-> head] /\ HeadAccepted(d)

LEMMA DetectorsReport ==
  ASSUME NEW d, Met(d)
  PROVE  /\ d.classes \in ClassLists /\ d.classes \in Seq(STRING)
         /\ Len(d.classes) \in Nat /\ Len(d.classes) > 1 /\ DOMAIN d.classes = 1..Len(d.classes)
         /\ \A i, j \in 1..Len(d.classes) : d.classes[i] = d.classes[j] => i = j
         /\ \A erased :
              /\ PredictProba(d, erased) \in Seq(Int)
              /\ DOMAIN PredictProba(d, erased) = 1..Len(d.classes)
              /\ \A i \in 1..Len(d.classes) : PredictProba(d, erased)[i] \in Int
         /\ Binary(d) =>
              /\ d.classes[1] = Benign
              /\ \A erased : PredictProba(d, erased)[1] + PredictProba(d, erased)[2] = Whole
<1>1. PICK names \in ClassLists : \E head \in HeadsOf(names) :
        d = [classes |-> names, head |-> head] /\ HeadAccepted(d)
  BY DEF Met
<1>2. PICK head \in HeadsOf(names) : d = [classes |-> names, head |-> head] /\ HeadAccepted(d)
  BY <1>1
<1>3. d.classes = names /\ d.head = head
  BY <1>2
<1>4. /\ names \in Seq(STRING) /\ Len(names) > 1
      /\ \A i, j \in DOMAIN names : names[i] = names[j] => i = j
      /\ Len(names) = 2 => names[1] = Benign
      /\ head \in [SUBSET Vocabulary -> Seq(Int)]
      /\ Len(names) = 2 =>
           \A erased \in SUBSET Vocabulary :
             Len(head[erased]) = 2 => head[erased][1] + head[erased][2] = Whole
  BY DetectorAssumption
<1>5. Len(names) \in Nat /\ DOMAIN names = 1..Len(names)
  BY <1>4, LenProperties
<1>6. ASSUME NEW erased
      PROVE  /\ PredictProba(d, erased) \in Seq(Int)
             /\ DOMAIN PredictProba(d, erased) = 1..Len(names)
             /\ \A i \in 1..Len(names) : PredictProba(d, erased)[i] \in Int
             /\ Len(names) = 2 =>
                  PredictProba(d, erased)[1] + PredictProba(d, erased)[2] = Whole
  <2> DEFINE own == erased \cap Vocabulary
             out == head[own]
  <2>1. own \in SUBSET Vocabulary /\ own \cap Vocabulary = own
    OBVIOUS
  <2>2. out \in Seq(Int) /\ own \in DOMAIN d.head
    BY <1>3, <1>4, <2>1
  <2>3. PredictProba(d, erased) = IF Len(out) = 1 THEN <<Whole - out[1], out[1]>> ELSE out
    BY <1>3 DEF PredictProba
  <2>4. PredictProba(d, own) = PredictProba(d, erased)
    BY <2>1 DEF PredictProba
  <2>5. Len(PredictProba(d, own)) = Len(names)
    BY <1>2, <1>3, <2>2 DEF HeadAccepted
  <2> HIDE DEF own, out
  <2>6. Len(out) = 1 =>
          /\ out[1] \in Int /\ <<Whole - out[1], out[1]>> \in Seq(Int)
          /\ Whole - out[1] + out[1] = Whole
    <3> SUFFICES ASSUME Len(out) = 1 PROVE /\ out[1] \in Int
                                           /\ <<Whole - out[1], out[1]>> \in Seq(Int)
                                           /\ Whole - out[1] + out[1] = Whole
      OBVIOUS
    <3>1. out \in [1..1 -> Int]
      BY <2>2, LenProperties
    <3>2. out[1] \in Int
      BY <3>1
    <3> QED
      BY <3>2, Layer2Assumption
  <2>7. PredictProba(d, erased) \in Seq(Int)
    BY <2>2, <2>3, <2>6
  <2>8. /\ DOMAIN PredictProba(d, erased) = 1..Len(names)
        /\ \A i \in 1..Len(names) : PredictProba(d, erased)[i] \in Int
    BY <2>4, <2>5, <2>7, LenProperties
  <2>9. CASE Len(out) = 1
    BY <2>3, <2>6, <2>7, <2>8, <2>9
  <2>10. CASE Len(out) # 1
    <3>1. PredictProba(d, erased) = out
      BY <2>3, <2>10
    <3>2. Len(names) = 2 => out[1] + out[2] = Whole
      BY <1>4, <2>1, <2>4, <2>5, <3>1 DEF out
    <3> QED
      BY <2>7, <2>8, <3>1, <3>2
  <2> QED
    BY <2>9, <2>10
<1> QED
  BY <1>3, <1>4, <1>5, <1>6 DEF Binary

LEMMA ColumnsAreFound ==
  ASSUME NEW d, Met(d), NEW i \in 1..Len(d.classes)
  PROVE  Column(d, d.classes[i]) = i
<1>1. /\ DOMAIN d.classes = 1..Len(d.classes)
      /\ \A j, k \in 1..Len(d.classes) : d.classes[j] = d.classes[k] => j = k
  BY DetectorsReport
<1> QED
  BY <1>1 DEF Column

LEMMA PredictionsAreClasses ==
  ASSUME NEW d, Met(d), NEW erased
  PROVE  \E i \in 1..Len(d.classes) : PredictedClass(d, erased) = d.classes[i]
<1> DEFINE n == Len(d.classes)
           row == PredictProba(d, erased)
           largest == {i \in DOMAIN row : \A j \in DOMAIN row : row[j] <= row[i]}
<1>1. n \in Nat /\ n > 1 /\ DOMAIN row = 1..n /\ \A i \in 1..n : row[i] \in Int
  BY DetectorsReport
<1> HIDE DEF n, row
<1>2. IsFiniteSet(1..n) /\ 1 \in 1..n
  BY <1>1, FS_Interval
<1> DEFINE J == [i \in 1..n |-> row[i]]
<1>3. J \in [1..n -> Int]
  BY <1>1
<1>4. PICK t \in 1..n : \A u \in 1..n : J[u] <= J[t]
  <2> HIDE DEF J
  <2> QED
    BY <1>2, <1>3, BestExists
<1>5. t \in largest /\ largest \in SUBSET (1..n)
  BY <1>1, <1>4
<1> HIDE DEF largest
<1>6. IsFiniteSet(largest)
  BY <1>2, <1>5, FS_Subset
<1>61. \A i \in largest : i \in Int
  BY <1>5
<1>7. Min(largest) \in 1..n
  BY <1>5, <1>6, <1>61, Extremes
<1>8. PredictedClass(d, erased) = d.classes[Min(largest)]
  BY DEF PredictedClass, largest, row
<1> QED
  BY <1>7, <1>8 DEF n

\* The class that is measured is the one that is explained, with or without the
\* attribution's word for it, and has a column.
LEMMA TargetsAreExplained ==
  ASSUME NEW d, Met(d)
  PROVE  /\ TargetClass(d, None) = Explained(d) /\ TargetClass(d, Explained(d)) = Explained(d)
         /\ \E i \in 1..Len(d.classes) : Explained(d) = d.classes[i]
<1>1. Len(d.classes) \in Nat /\ Len(d.classes) > 1
  BY DetectorsReport
<1>2. PICK i \in 1..Len(d.classes) : PredictedClass(d, {}) = d.classes[i]
  BY PredictionsAreClasses
<1>3. Last(d.classes) = d.classes[Len(d.classes)]
  BY DEF Last
<1>4. \E j \in 1..Len(d.classes) : Explained(d) = d.classes[j]
  BY <1>1, <1>2, <1>3 DEF Explained
<1>5. TargetClass(d, None) = Explained(d) /\ TargetClass(d, Explained(d)) = Explained(d)
  BY DEF TargetClass, Explained
<1> QED
  BY <1>4, <1>5

LEMMA DropsAreIntegers ==
  ASSUME NEW d, Met(d), NEW erased, NEW i \in 1..Len(d.classes)
  PROVE  Drop(d, erased, d.classes[i]) \in Int
<1>1. PredictProba(d, {})[i] \in Int /\ PredictProba(d, erased)[i] \in Int
  BY DetectorsReport
<1> QED
  BY <1>1, ColumnsAreFound DEF Drop

(***************************************************************************)
(* The scores are numbers.                                                 *)
(***************************************************************************)
\* The sum along a sequence of numbers.
LEMMA SumsAddUp ==
  ASSUME NEW n \in Nat, NEW f \in [1..n -> Int]
  PROVE  \E sum : /\ SumTo(f, n) = sum[n] /\ sum[0] = 0
                  /\ \A k \in 1..n : sum[k] = sum[k - 1] + f[k]
<1> DEFINE sum == CHOOSE h : h = [k \in 0..n |-> IF k = 0 THEN 0 ELSE h[k - 1] + f[k]]
           step == [k \in 1..n |-> [x \in Int |-> x + f[k]]]
<1>1. SumTo(f, n) = sum[n]
  BY DEF SumTo
<1>2. PICK g \in [0..n -> Int] : Solves(g, n, 0, step)
  <2> DEFINE S == Int  start == 0
  <2>1. step \in [1..n -> [S -> S]] /\ start \in S
    OBVIOUS
  <2> HIDE DEF step, S, start
  <2>2. \E g \in [0..n -> S] : Solves(g, n, start, step)
    BY <2>1, Recursion
  <2> QED
    BY <2>2 DEF S, start
<1>3. g = [k \in 0..n |-> IF k = 0 THEN 0 ELSE g[k - 1] + f[k]]
  <2>1. \A k \in 0..n : g[k] = IF k = 0 THEN 0 ELSE g[k - 1] + f[k]
    <3>1. ASSUME NEW k \in 1..n
          PROVE  g[k - 1] \in Int /\ step[k][g[k - 1]] = g[k - 1] + f[k]
      <4>1. k - 1 \in 0..n /\ g[k - 1] \in Int
        BY <1>2
      <4> QED
        BY <4>1
    <3> HIDE DEF step
    <3> QED
      BY <1>2, <3>1 DEF Solves
  <2> QED
    BY <1>2, <2>1
<1>4. sum = [k \in 0..n |-> IF k = 0 THEN 0 ELSE sum[k - 1] + f[k]]
  BY <1>3
<1> HIDE DEF sum
<1>5. sum[0] = 0 /\ \A k \in 1..n : sum[k] = sum[k - 1] + f[k]
  BY <1>4
<1> QED
  BY <1>1, <1>5

LEMMA SumsAreIntegers ==
  ASSUME NEW n \in Nat, NEW f \in [1..n -> Int]
  PROVE  /\ SumTo(f, n) \in Int
         /\ (\A k \in 1..n : f[k] = 0) => SumTo(f, n) = 0
<1>1. PICK sum : /\ SumTo(f, n) = sum[n] /\ sum[0] = 0
                 /\ \A k \in 1..n : sum[k] = sum[k - 1] + f[k]
  BY SumsAddUp
<1> DEFINE typed == {k \in Nat : k <= n => sum[k] \in Int}
           zero == {k \in Nat : k <= n => sum[k] = 0}
<1>2. n \in typed
  <2>1. 0 \in typed
    BY <1>1
  <2>2. ASSUME NEW k \in Nat, k \in typed PROVE k + 1 \in typed
    BY <1>1, <2>2
  <2> HIDE DEF typed
  <2> QED
    BY <2>1, <2>2, Reached
<1>3. ASSUME \A k \in 1..n : f[k] = 0 PROVE n \in zero
  <2>1. 0 \in zero
    BY <1>1
  <2>2. ASSUME NEW k \in Nat, k \in zero PROVE k + 1 \in zero
    BY <1>1, <1>3, <2>2
  <2> HIDE DEF zero
  <2> QED
    BY <2>1, <2>2, Reached
<1> QED
  BY <1>1, <1>2, <1>3

LEMMA PlacesAreCounted ==
  ASSUME NEW n \in Nat, NEW P, P \subseteq 1..n
  PROVE  IsFiniteSet(P) /\ Cardinality(P) \in Nat
<1>1. IsFiniteSet(1..n) /\ P \in SUBSET (1..n)
  BY FS_Interval
<1> QED
  BY <1>1, FS_Subset, FS_CardinalityType

\* What is read off finitely many places.
LEMMA ImagesAreFinite ==
  ASSUME NEW n \in Nat, NEW P, P \subseteq 1..n, NEW f, DOMAIN f = P
  PROVE  IsFiniteSet(Range(f)) /\ Cardinality(Range(f)) \in Nat
<1> DEFINE g == [i \in P |-> f[i]]
<1>1. g \in Surjection(P, Range(f))
  BY DEF Surjection, Range
<1> HIDE DEF g
<1> QED
  BY <1>1, PlacesAreCounted, FS_Surjection, FS_CardinalityType

Measure(m) == m.num \in Int /\ m.den \in Nat

LEMMA ScaledIsAnInteger ==
  ASSUME NEW m, Measure(m)
  PROVE  Scaled(m) \in Int
<1> DEFINE p == m.num  q == m.den
<1>1. p \in Int /\ q \in Nat /\ Scale \in Int
  BY BatteryAssumption DEF Measure
<1>2. Scaled(m) = IF q = 0 THEN 0 ELSE (Scale * p) \div q
  BY DEF Scaled
<1> HIDE DEF p, q
<1>3. Scale * p \in Int
  BY <1>1
<1>4. q # 0 => (Scale * p) \div q \in Int
  <2> DEFINE r == Scale * p
  <2> HIDE DEF r
  <2>1. r \in Int
    BY <1>3 DEF r
  <2>2. q # 0 => r \div q \in Int
    BY <1>1, <2>1
  <2> QED
    BY <2>2 DEF r
<1> QED
  BY <1>2, <1>4

LEMMA AgreementIsAMeasure ==
  ASSUME NEW cs, IsList(cs), NEW a, NEW P, P \subseteq 1..Len(cs)
  PROVE  Measure(AgreeingOf(P, cs, a))
<1> DEFINE agreeing == {i \in P : Agrees(cs[i], a)}
<1>1. Len(cs) \in Nat /\ agreeing \subseteq 1..Len(cs)
  BY ListsHaveLengths
<1>2. AgreeingOf(P, cs, a) = [num |-> Cardinality(agreeing), den |-> Cardinality(P)]
  BY DEF AgreeingOf, Fraction
<1> HIDE DEF agreeing
<1>3. Cardinality(agreeing) \in Nat /\ Cardinality(P) \in Nat
  BY <1>1, PlacesAreCounted
<1> QED
  BY <1>2, <1>3 DEF Measure

LEMMA Cubes ==
  ASSUME NEW n \in Nat, n > 1
  PROVE  n * (n * n - 1) \in Nat
<1>1. n * n \in Int /\ n * n >= 1
  OBVIOUS
<1> DEFINE m == n * n - 1
<1>2. m \in Nat
  BY <1>1
<1> HIDE DEF m
<1>3. n * m \in Nat
  BY <1>2
<1> QED
  BY <1>3 DEF m

LEMMA ArcIsAMeasure ==
  ASSUME NEW cs, IsList(cs), NEW a
  PROVE  Measure(Arc(cs, a))
<1> DEFINE pairs == ArcPairs(cs, a)
           top == Top(a)
           said == [i \in pairs |-> cs[i].rank]
           real == [i \in pairs |-> RankIn(top, cs[i].feature)]
           n == Cardinality(pairs)
           Off(i) == Position(said, i) - Position(real, i)
           squares == [i \in DOMAIN cs |-> IF i \in pairs THEN Off(i) * Off(i) ELSE 0]
           sum == SumTo(squares, Len(cs))
<1>1. Len(cs) \in Nat /\ DOMAIN cs = 1..Len(cs)
  BY ListsHaveLengths
<1>2. Arc(cs, a) = IF n < 2 THEN Fraction(0, 0)
                   ELSE Fraction(n * (n * n - 1) - 6 * sum, n * (n * n - 1))
  BY DEF Arc
<1>3. pairs \subseteq 1..Len(cs)
  BY <1>1 DEF ArcPairs, Present
<1>4. n \in Nat
  BY <1>1, <1>3, PlacesAreCounted
<1>5. ASSUME NEW xs, DOMAIN xs = pairs, NEW i PROVE Position(xs, i) \in Nat
  <2> DEFINE P == {j \in DOMAIN xs : xs[j] < xs[i] \/ (xs[j] = xs[i] /\ j < i)}
  <2>1. P \subseteq 1..Len(cs) /\ Position(xs, i) = Cardinality(P)
    BY <1>3, <1>5 DEF Position
  <2> HIDE DEF P
  <2> QED
    BY <1>1, <2>1, PlacesAreCounted
<1>6. ASSUME NEW i PROVE Off(i) * Off(i) \in Int
  <2>1. Position(said, i) \in Nat /\ Position(real, i) \in Nat
    BY <1>5
  <2> HIDE DEF said, real
  <2> QED
    BY <2>1
<1>7. squares \in [1..Len(cs) -> Int]
  <2> HIDE DEF Off
  <2> QED
    BY <1>1, <1>6
<1>8. sum \in Int
  <2> HIDE DEF squares
  <2> QED
    BY <1>1, <1>7, SumsAreIntegers
<1> HIDE DEF n, sum
<1>9. CASE n < 2
  BY <1>2, <1>9 DEF Fraction, Measure
<1>10. CASE ~(n < 2)
  <2> DEFINE cube == n * (n * n - 1)
  <2>1. cube \in Nat
    BY <1>4, <1>10, Cubes
  <2>2. Arc(cs, a) = [num |-> cube - 6 * sum, den |-> cube]
    BY <1>2, <1>10 DEF Fraction
  <2> HIDE DEF cube
  <2> QED
    BY <1>8, <2>1, <2>2 DEF Measure
<1> QED
  BY <1>9, <1>10

LEMMA MentionsAreMeasured ==
  ASSUME NEW cs, IsList(cs), NEW a, IsAttribution(a)
  PROVE  /\ Measure(MentionPrecision(cs, a)) /\ Measure(MentionRecall(cs, a))
         /\ Measure(Hfr(cs, a)) /\ Measure(Dsa(cs, a)) /\ Measure(DsaAsserted(cs, a))
         /\ Measure(DirectionAssertionRate(cs, a))
<1> DEFINE n == Len(cs)
           present == Present(cs, a)
           asserted == Asserted(cs, a)
           unknown == {i \in DOMAIN cs : cs[i].feature \notin FeaturesOf(a)}
           top == FeaturesOf(Top(a))
<1>1. n \in Nat /\ DOMAIN cs = 1..n
  BY ListsHaveLengths
<1>2. present \subseteq 1..n /\ asserted \subseteq 1..n /\ unknown \subseteq 1..n
  BY <1>1 DEF Present, Asserted
<1>3. IsFiniteSet(top)
  <2> DEFINE f == [i \in DOMAIN Top(a) |-> Top(a)[i].feature]
             m == Least(TopK, Len(a))
  <2>1. m \in Nat /\ DOMAIN f = 1..m
    BY TopIsAPrefix, RankedIsSorted
  <2>2. top = Range(f)
    BY DEF FeaturesOf, Range
  <2> HIDE DEF f, m, top
  <2> QED
    BY <2>1, <2>2, ImagesAreFinite
<1>4. Cardinality(top) \in Nat /\ Cardinality(top \cap Claimed(cs)) \in Nat
  <2> HIDE DEF top
  <2>1. IsFiniteSet(top \cap Claimed(cs))
    BY <1>3, FS_Subset
  <2> QED
    BY <1>3, <2>1, FS_CardinalityType
<1>5. /\ MentionPrecision(cs, a) = [num |-> Cardinality(present), den |-> n]
      /\ MentionRecall(cs, a) = [num |-> Cardinality(top \cap Claimed(cs)),
                                 den |-> Cardinality(top)]
      /\ Hfr(cs, a) = [num |-> Cardinality(unknown), den |-> n]
      /\ DirectionAssertionRate(cs, a) = [num |-> Cardinality(asserted),
                                          den |-> Cardinality(present)]
  BY DEF MentionPrecision, MentionRecall, Hfr, DirectionAssertionRate, Fraction
<1>6. Dsa(cs, a) = AgreeingOf(present, cs, a) /\ DsaAsserted(cs, a) = AgreeingOf(asserted, cs, a)
  BY DEF Dsa, DsaAsserted
<1> HIDE DEF present, asserted, unknown, top, n
<1>7. Cardinality(present) \in Nat /\ Cardinality(asserted) \in Nat /\ Cardinality(unknown) \in Nat
  BY <1>1, <1>2, PlacesAreCounted
<1>8. Measure(Dsa(cs, a)) /\ Measure(DsaAsserted(cs, a))
  BY <1>2, <1>6, AgreementIsAMeasure DEF n
<1> QED
  BY <1>1, <1>4, <1>5, <1>7, <1>8 DEF Measure

LEMMA DeltasAreMeasured ==
  ASSUME NEW cs, IsList(cs), NEW d, Met(d), NEW k, NEW measure
  PROVE  EpsModel(measure, cs, d, k) \in Int /\ Measure(EpsModelPerFeature(measure, cs, d, k))
<1>1. EpsModel(measure, cs, d, k) \in Int
  <2>1. PICK i \in 1..Len(d.classes) : TargetClass(d, None) = d.classes[i]
    BY TargetsAreExplained
  <2> QED
    BY <2>1, DropsAreIntegers DEF EpsModel
<1> DEFINE S == Cited(cs, Vocabulary, k)
<1>2. Cardinality(S) \in Nat
  <2> DEFINE Before(i, j) ==
               IF cs[i].rank = None THEN cs[j].rank = None /\ i < j
               ELSE IF cs[j].rank = None THEN TRUE
               ELSE \/ cs[i].rank < cs[j].rank
                    \/ cs[i].rank = cs[j].rank /\ i < j
             firsts == {i \in DOMAIN cs : /\ cs[i].feature \in Vocabulary
                                          /\ \A j \in DOMAIN cs :
                                               cs[j].feature = cs[i].feature
                                                 => i = j \/ Before(i, j)}
             order == InOrder(firsts, {p \in firsts \X firsts : Before(p[1], p[2])})
             places == {q \in DOMAIN order : q <= k}
             f == [r \in places |-> cs[order[r]].feature]
  <2>1. S = {cs[order[r]].feature : r \in places}
    BY DEF Cited
  <2>2. S = Range(f)
    BY <2>1 DEF Range
  <2>3. firsts \subseteq 1..Len(cs) /\ Len(cs) \in Nat
    BY ListsHaveLengths
  <2>4. DOMAIN order = 1..Cardinality(firsts)
    BY DEF InOrder
  <2> HIDE DEF firsts, order
  <2>5. Cardinality(firsts) \in Nat /\ places \subseteq 1..Cardinality(firsts)
    BY <2>3, <2>4, PlacesAreCounted
  <2>6. DOMAIN f = places
    OBVIOUS
  <2> HIDE DEF f, places, S
  <2> QED
    BY <2>2, <2>5, <2>6, ImagesAreFinite
<1>3. EpsModelPerFeature(measure, cs, d, k)
        = IF S = {} THEN [num |-> 0, den |-> 1]
          ELSE [num |-> EpsModel(measure, cs, d, k), den |-> Cardinality(S)]
  BY DEF EpsModelPerFeature, Fraction
<1> HIDE DEF S
<1> QED
  BY <1>1, <1>2, <1>3 DEF Measure

LEMMA ScoresAreIntegers ==
  ASSUME NEW metric \in Metrics, NEW cs, IsList(cs), NEW i, Met(i.detector),
         IsAttribution(i.attribution)
  PROVE  Score(metric, cs, i) \in Int
<1> DEFINE a == i.attribution  d == i.detector
<1>1. /\ Scaled(MentionPrecision(cs, a)) \in Int /\ Scaled(MentionRecall(cs, a)) \in Int
      /\ Scaled(Hfr(cs, a)) \in Int /\ Scaled(Dsa(cs, a)) \in Int
      /\ Scaled(DsaAsserted(cs, a)) \in Int /\ Scaled(DirectionAssertionRate(cs, a)) \in Int
  BY MentionsAreMeasured, ScaledIsAnInteger
<1>2. Scaled(Arc(cs, a)) \in Int
  BY ArcIsAMeasure, ScaledIsAnInteger
<1>3. ASSUME NEW measure
      PROVE  /\ Scale * EpsModel(measure, cs, d, ErasureK) \in Int
             /\ Scaled(EpsModelPerFeature(measure, cs, d, ErasureK)) \in Int
  <2> DEFINE e == EpsModel(measure, cs, d, ErasureK)
  <2>1. e \in Int /\ Measure(EpsModelPerFeature(measure, cs, d, ErasureK)) /\ Scale \in Int
    BY DeltasAreMeasured, BatteryAssumption
  <2>2. Scaled(EpsModelPerFeature(measure, cs, d, ErasureK)) \in Int
    BY <2>1, ScaledIsAnInteger
  <2> HIDE DEF e
  <2>3. Scale * e \in Int
    BY <2>1
  <2> QED
    BY <2>2, <2>3 DEF e
<1>4. CASE metric = "mention_precision"
  BY <1>1, <1>4 DEF Score
<1>5. CASE metric = "mention_recall"
  BY <1>1, <1>5 DEF Score
<1>6. CASE metric = "dsa"
  BY <1>1, <1>6 DEF Score
<1>7. CASE metric = "dsa_asserted"
  BY <1>1, <1>7 DEF Score
<1>8. CASE metric = "direction_assertion_rate"
  BY <1>1, <1>8 DEF Score
<1>9. CASE metric = "arc"
  BY <1>2, <1>9 DEF Score
<1>10. CASE metric = "hfr"
  BY <1>1, <1>10 DEF Score
<1>11. CASE metric = "comprehensiveness_cited[prob]"
  BY <1>3, <1>11 DEF Score
<1>12. CASE metric = "sufficiency_cited[prob]"
  BY <1>3, <1>12 DEF Score
<1>13. CASE metric = "comprehensiveness_cited_per_feature[prob]"
  BY <1>3, <1>13 DEF Score
<1>14. CASE metric = "sufficiency_cited_per_feature[prob]"
  BY <1>3, <1>14 DEF Score
<1> QED
  BY <1>4, <1>5, <1>6, <1>7, <1>8, <1>9, <1>10, <1>11, <1>12, <1>13, <1>14 DEF Metrics

\* A corruption of a list of claims is a list of claims.
LEMMA CorruptionsAreLists ==
  ASSUME NEW cs, IsList(cs), NEW op \in OperatorNames
  PROVE  IsList(Corrupt(op, cs))
<1> DEFINE n == Len(cs)
<1>1. n \in Nat /\ DOMAIN cs = 1..n /\ cs \in Seq(Range(cs))
  BY ListsHaveLengths
<1>2. ASSUME NEW e PROVE IsList(Append(cs, e))
  <2>1. cs \in Seq(Range(cs) \cup {e})
    BY <1>1, SeqMonotonic
  <2>2. Append(cs, e) \in Seq(Range(cs) \cup {e})
    BY <2>1, AppendProperties
  <2> QED
    BY <2>2 DEF IsList
<1>3. ASSUME NEW i, NEW e PROVE IsList([cs EXCEPT ![i] = e])
  <2> DEFINE t == [cs EXCEPT ![i] = e]
  <2>1. t = [j \in 1..n |-> t[j]]
    BY <1>1
  <2> HIDE DEF t
  <2> QED
    BY <1>1, <2>1, FunctionsAreLists DEF t
<1>4. IsList(RankInversion(cs))
  <2> DEFINE t == [cs EXCEPT ![1].rank = cs[2].rank, ![2].rank = cs[1].rank]
  <2>1. t = [j \in 1..n |-> t[j]]
    BY <1>1
  <2>2. RankInversion(cs) = IF n < 2 THEN cs ELSE t
    BY DEF RankInversion
  <2> HIDE DEF t
  <2>3. IsList(t)
    BY <1>1, <2>1, FunctionsAreLists
  <2> QED
    BY <2>2, <2>3
<1>5. IsList(Omission(cs))
  <2> DEFINE i == RankOne(cs)
             ones == {j \in DOMAIN cs : cs[j].rank = 1}
  <2>1. i = IF ones = {} THEN 1 ELSE Min(ones)
    BY DEF RankOne
  <2>2. ones \subseteq 1..n
    BY <1>1
  <2> HIDE DEF i, ones
  <2>3. i = 1 \/ i \in 1..n
    <3>1. IsFiniteSet(ones)
      BY <1>1, <2>2, PlacesAreCounted
    <3>2. ones \subseteq Int
      BY <1>1, <2>2
    <3>3. ones # {} => Min(ones) \in ones
      BY <3>1, <3>2, Extremes
    <3> QED
      BY <2>1, <2>2, <3>3
  <2>4. Omission(cs) = SubSeq(cs, 1, i - 1) \o SubSeq(cs, i + 1, n)
    BY DEF Omission, RemoveAt, i, n
  <2>5. \A j \in 1..n : cs[j] \in Range(cs)
    BY <1>1 DEF Range
  <2>6. /\ i - 1 \in Int /\ i + 1 \in Int
        /\ \A j \in 1..(i - 1) : cs[j] \in Range(cs)
        /\ \A j \in (i + 1)..n : cs[j] \in Range(cs)
    BY <1>1, <2>3, <2>5
  <2>7. SubSeq(cs, 1, i - 1) \in Seq(Range(cs)) /\ SubSeq(cs, i + 1, n) \in Seq(Range(cs))
    BY <1>1, <2>6, SubSeqProperties
  <2>8. Omission(cs) \in Seq(Range(cs))
    BY <2>4, <2>7, ConcatProperties
  <2> QED
    BY <2>8 DEF IsList
<1>6. IsList(FabricatedFeature(cs))
  BY <1>2 DEF FabricatedFeature
<1>7. IsList(SignFlip(cs))
  BY <1>3 DEF SignFlip
<1>8. IsList(VagueSubstitution(cs))
  BY <1>3 DEF VagueSubstitution
<1> QED
  BY <1>4, <1>5, <1>6, <1>7, <1>8 DEF Corrupt, OperatorNames

(***************************************************************************)
(* The battery.                                                            *)
(***************************************************************************)
\* The instance at hand is an accepted detector's, attributed and claimed of.
Prepared(i, names) ==
  \E head \in HeadsOf(names) : \E shap \in ShapsOf(names) :
    /\ HeadAccepted([classes |-> names, head |-> head])
    /\ i = InstanceOf([classes |-> names, head |-> head], shap)

\* The inductive invariant of the battery: every score is a number, corruptions
\* are of a prepared instance, and a verdict, which ends the battery, was reached at
\* the operating points of the scores as they still are.
BatteryInductive ==
  /\ classes \in ClassLists
  /\ pending \in Seq(Range(Operators))
  /\ instance = None => pending = <<>>
  /\ instance # None => Prepared(instance, classes)
  /\ scores \in [Metrics -> [VariantNames -> Seq(Int)]]
  /\ verdict # None =>
       /\ instance = None
       /\ \A m \in Metrics :
            verdict.summaries[m].threshold
              = OperatingPoint(scores[m]["faithful"], Corrupted(m), LowerIsCorrupt(m))

LEMMA InstancesAreSound ==
  ASSUME NEW names \in ClassLists, NEW i, Prepared(i, names)
  PROVE  /\ i # None /\ Met(i.detector) /\ i.detector.classes = names
         /\ IsAttribution(i.attribution) /\ i.faithful = FaithfulClaims(i.attribution)
         /\ i.explained = Explained(i.detector)
<1>1. PICK head \in HeadsOf(names) : \E shap \in ShapsOf(names) :
        /\ HeadAccepted([classes |-> names, head |-> head])
        /\ i = InstanceOf([classes |-> names, head |-> head], shap)
  BY DEF Prepared
<1> DEFINE d == [classes |-> names, head |-> head]
<1>2. PICK shap \in ShapsOf(names) : HeadAccepted(d) /\ i = InstanceOf(d, shap)
  BY <1>1
<1>3. i # None
  BY <1>2, DetectorAssumption
<1>4. /\ i.detector = d /\ i.attribution = Attribute(d, shap) /\ i.explained = Explained(d)
      /\ i.faithful = FaithfulClaims(Attribute(d, shap))
  BY <1>2 DEF InstanceOf
<1>5. d.classes = names /\ Met(d)
  BY <1>2 DEF Met
<1> HIDE DEF d
<1>6. PICK c \in 1..Len(d.classes) : Explained(d) = d.classes[c]
  BY <1>5, TargetsAreExplained
<1>7. Attribute(d, shap) = shap[c]
  BY <1>5, <1>6, ColumnsAreFound DEF Attribute
<1>8. DOMAIN d.classes = 1..Len(d.classes)
  BY <1>5, DetectorsReport
<1>9. IsAttribution(shap[c])
  BY <1>5, <1>8, DetectorAssumption
<1> QED
  BY <1>3, <1>4, <1>5, <1>7, <1>9

LEMMA RecordedIsTyped ==
  ASSUME scores \in [Metrics -> [VariantNames -> Seq(Int)]], NEW v \in VariantNames,
         NEW cs, IsList(cs), NEW i, Met(i.detector), IsAttribution(i.attribution)
  PROVE  Recorded(v, cs, i) \in [Metrics -> [VariantNames -> Seq(Int)]]
<1> SUFFICES ASSUME NEW m \in Metrics
             PROVE  [scores[m] EXCEPT ![v] = Append(@, Score(m, cs, i))] \in [VariantNames -> Seq(Int)]
  BY DEF Recorded
<1>1. scores[m] \in [VariantNames -> Seq(Int)] /\ scores[m][v] \in Seq(Int)
  OBVIOUS
<1>2. Score(m, cs, i) \in Int
  BY ScoresAreIntegers
<1>3. Append(scores[m][v], Score(m, cs, i)) \in Seq(Int)
  BY <1>1, <1>2, AppendProperties
<1> QED
  BY <1>1, <1>3

LEMMA BatteryInductiveInit == Init => BatteryInductive
<1> SUFFICES ASSUME Init PROVE BatteryInductive
  OBVIOUS
<1>1. <<>> \in Seq(Int) /\ <<>> \in Seq(Range(Operators))
  BY EmptySeq
<1> QED
  BY <1>1 DEF Init, BatteryInductive

LEMMA BatteryInductiveStep == BatteryInductive /\ [Next]_vars => BatteryInductive'
<1> SUFFICES ASSUME BatteryInductive, [Next]_vars PROVE BatteryInductive'
  OBVIOUS
<1> USE DEF BatteryInductive
<1>0. Operators \in Seq(Range(Operators)) /\ Range(Operators) \subseteq OperatorNames
  BY BatteryAssumption, SeqOfRange, RangeOfSeq
<1>1. CASE UNCHANGED vars
  <2>1. \A m \in Metrics : Corrupted(m)' = Corrupted(m)
    BY <1>1 DEF vars, Corrupted
  <2> QED
    BY <1>1, <2>1 DEF vars
<1>2. CASE Explain
  <2>1. PICK head \in HeadsOf(classes) : \E shap \in ShapsOf(classes) :
          LET d == [classes |-> classes, head |-> head]
          IN /\ HeadAccepted(d)
             /\ instance' = InstanceOf(d, shap)
             /\ scores' = Recorded("faithful", instance'.faithful, instance')
    BY <1>2 DEF Explain
  <2>2. Prepared(instance', classes)
    BY <2>1 DEF Prepared
  <2>3. scores' = Recorded("faithful", instance'.faithful, instance')
    BY <2>1
  <2>4. /\ instance' # None /\ Met(instance'.detector) /\ IsAttribution(instance'.attribution)
        /\ IsList(instance'.faithful)
    BY <2>2, InstancesAreSound, FaithfulClaimsOf
  <2>5. scores' \in [Metrics -> [VariantNames -> Seq(Int)]]
    BY <2>3, <2>4, RecordedIsTyped DEF VariantNames
  <2>6. pending' = Operators /\ classes' = classes /\ verdict' = verdict /\ verdict = None
    BY <1>2 DEF Explain
  <2> QED
    BY <1>0, <2>2, <2>4, <2>5, <2>6
<1>3. CASE Inject
  <2>1. /\ pending # <<>> /\ pending' = Tail(pending)
        /\ scores' = Recorded(pending[1], Corrupt(pending[1], instance.faithful), instance)
        /\ instance' = IF Len(pending) = 1 THEN None ELSE instance
        /\ classes' = classes /\ verdict' = verdict
    BY <1>3 DEF Inject
  <2>2. instance # None /\ Prepared(instance, classes) /\ verdict = None
    BY <2>1
  <2>3. /\ Met(instance.detector) /\ IsAttribution(instance.attribution)
        /\ IsList(instance.faithful)
    BY <2>2, InstancesAreSound, FaithfulClaimsOf
  <2>4. /\ pending[1] \in Range(Operators) /\ pending' \in Seq(Range(Operators))
        /\ Len(pending) = 1 => pending' = <<>>
    <3>1. Len(pending) \in Nat \ {0} /\ pending \in [1..Len(pending) -> Range(Operators)]
      BY <2>1, EmptySeq, LenProperties
    <3>2. /\ pending' \in Seq(Range(Operators)) /\ Len(pending') = Len(pending) - 1
      BY <2>1, HeadTailProperties
    <3>3. Len(pending) = 1 => pending' = <<>>
      BY <3>1, <3>2, EmptySeq
    <3>4. 1 \in 1..Len(pending)
      BY <3>1
    <3> QED
      BY <3>1, <3>2, <3>3, <3>4
  <2>5. IsList(Corrupt(pending[1], instance.faithful))
    BY <1>0, <2>3, <2>4, CorruptionsAreLists
  <2>6. scores' \in [Metrics -> [VariantNames -> Seq(Int)]]
    BY <2>1, <2>3, <2>4, <2>5, RecordedIsTyped DEF VariantNames
  <2> QED
    BY <2>1, <2>2, <2>4, <2>6
<1>4. CASE Judge
  <2>1. /\ instance = None /\ classes' = classes /\ instance' = instance
        /\ pending' = pending /\ scores' = scores
        /\ verdict'.summaries = [m \in Metrics |-> Summary(m)]
    BY <1>4 DEF Judge
  <2>2. ASSUME NEW m \in Metrics
        PROVE  verdict'.summaries[m].threshold
                 = OperatingPoint(scores'[m]["faithful"], Corrupted(m)', LowerIsCorrupt(m))
    <3>1. Corrupted(m)' = Corrupted(m)
      BY <2>1 DEF Corrupted
    <3>2. Summary(m).threshold
            = OperatingPoint(scores[m]["faithful"], Corrupted(m), LowerIsCorrupt(m))
      BY DEF Summary
    <3> QED
      BY <2>1, <3>1, <3>2
  <2> QED
    BY <2>1, <2>2
<1> QED
  BY <1>1, <1>2, <1>3, <1>4 DEF Next

\* At any time of the battery the open instance is prepared, the scores are numbers
\* and the verdict is of these scores (run_rq0_gate).
THEOREM BatteryInvariance == Spec => []BatteryInductive
<1> QED
  BY BatteryInductiveInit, BatteryInductiveStep, PTL DEF Spec

\* The corrupted scores, too, are finitely many numbers.
LEMMA CorruptedIsASample ==
  ASSUME BatteryInductive, NEW m \in Metrics
  PROVE  Sample(scores[m]["faithful"]) /\ Sample(Corrupted(m))
<1>1. \A v \in VariantNames : scores[m][v] \in Seq(Int)
  BY DEF BatteryInductive
<1>2. ASSUME NEW v \in VariantNames
      PROVE  /\ IsFiniteSet(DOMAIN scores[m][v])
             /\ \A i \in DOMAIN scores[m][v] : scores[m][v][i] \in Int
  BY <1>1, LenProperties, FS_Interval
<1> DEFINE Of(op) == {op} \X (DOMAIN scores[m][op])
           parts == {Of(op) : op \in Range(Operators)}
<1>3. DOMAIN Corrupted(m) = UNION parts
  BY DEF Corrupted
<1>4. ASSUME NEW op \in Range(Operators) PROVE IsFiniteSet(Of(op))
  <2>1. IsFiniteSet(DOMAIN scores[m][op])
    BY <1>2 DEF VariantNames
  <2> QED
    BY <2>1, FS_Singleton, FS_Product
<1>5. IsFiniteSet(parts)
  <2>1. Operators \in [1..Len(Operators) -> OperatorNames] /\ Len(Operators) \in Nat
    BY BatteryAssumption, LenProperties
  <2>2. IsFiniteSet(Range(Operators))
    BY <2>1, ImagesAreFinite
  <2> DEFINE f == [op \in Range(Operators) |-> Of(op)]
  <2>3. f \in Surjection(Range(Operators), parts)
    BY DEF Surjection
  <2> HIDE DEF f, parts
  <2> QED
    BY <2>2, <2>3, FS_Surjection
<1>6. IsFiniteSet(UNION parts)
  <2>1. \A p \in parts : IsFiniteSet(p)
    BY <1>4
  <2> HIDE DEF parts
  <2> QED
    BY <1>5, <2>1, FS_UNION
<1>7. ASSUME NEW p \in DOMAIN Corrupted(m) PROVE Corrupted(m)[p] \in Int
  <2>1. PICK op \in Range(Operators) : p \in {op} \X (DOMAIN scores[m][op])
    BY <1>3
  <2>2. p[1] = op /\ p[2] \in DOMAIN scores[m][op]
    BY <2>1
  <2>3. Corrupted(m)[p] = scores[m][op][p[2]]
    BY <2>2 DEF Corrupted
  <2> QED
    BY <1>2, <2>2, <2>3 DEF VariantNames
<1> QED
  BY <1>2, <1>3, <1>6, <1>7 DEF Sample, VariantNames

\* The recorded operating points beat every threshold, for any scores that any
\* attributions, detectors and corruptions lead to (find_operating_point).
THEOREM OperatingPointsStayBest == Spec => []OperatingPointsAreBest
<1>1. ASSUME BatteryInductive, verdict # None, NEW m \in Metrics
      PROVE  LET low == LowerIsCorrupt(m)
                 faithful == scores[m]["faithful"]
                 all == Range(faithful) \cup Range(Corrupted(m))
                 best == Youden(faithful, Corrupted(m), verdict.summaries[m].threshold, low)
             IN \A v \in all, e \in {-1, 0, 1} :
                  Youden(faithful, Corrupted(m), 2 * v + e, low) <= best
  <2> DEFINE low == LowerIsCorrupt(m)
             f == scores[m]["faithful"]
             c == Corrupted(m)
             all == Range(f) \cup Range(c)
  <2>1. verdict.summaries[m].threshold = OperatingPoint(f, c, low)
    BY <1>1 DEF BatteryInductive
  <2>2. Sample(f) /\ Sample(c)
    BY <1>1, CorruptedIsASample
  <2>3. low \in BOOLEAN
    BY DEF LowerIsCorrupt
  <2> HIDE DEF f, c, low
  <2>4. all \subseteq Int
    BY <2>2 DEF Sample, Range
  <2>5. all # {} => DOMAIN f # {} \/ DOMAIN c # {}
    BY DEF Range
  <2>6. ASSUME NEW v \in all, NEW e \in {-1, 0, 1}
        PROVE  Youden(f, c, 2 * v + e, low) <= Youden(f, c, OperatingPoint(f, c, low), low)
    <3> DEFINE t == 2 * v + e
    <3>1. v \in Int
      BY <2>4
    <3>2. t \in Int
      <4> HIDE DEF all
      <4> QED
        BY <3>1
    <3> HIDE DEF t, all
    <3>3. Youden(f, c, t, low) <= Youden(f, c, OperatingPoint(f, c, low), low)
      BY <2>2, <2>3, <2>5, <3>2, OperatingPointIsBest
    <3> QED
      BY <3>3 DEF t
  <2> HIDE DEF all
  <2> QED
    BY <2>1, <2>6 DEF f, c, low, all
<1>2. BatteryInductive => OperatingPointsAreBest
  BY <1>1 DEF OperatingPointsAreBest
<1> QED
  BY <1>2, BatteryInvariance, PTL

(***************************************************************************)
(* One class, and one set of features, all along.                          *)
(***************************************************************************)
LEMMA NumbersAreInOrder ==
  ASSUME NEW m \in Nat, NEW before, \A i, j \in 1..m : <<i, j>> \in before <=> i < j
  PROVE  DOMAIN InOrder(1..m, before) = 1..m /\ \A r \in 1..m : InOrder(1..m, before)[r] = r
<1> DEFINE S == 1..m
           order == InOrder(S, before)
<1>1. IsFiniteSet(S) /\ Cardinality(S) = m
  BY FS_Interval
<1>2. StrictOrder(S, before)
  BY DEF StrictOrder
<1>3. ASSUME NEW x \in S PROVE Earlier(S, before, x) = x - 1
  <2>1. {y \in S : <<y, x>> \in before} = 1..(x - 1)
    OBVIOUS
  <2>2. Cardinality(1..(x - 1)) = x - 1
    BY FS_Interval
  <2> QED
    BY <2>1, <2>2 DEF Earlier
<1>4. /\ order \in [1..Cardinality(S) -> S]
      /\ \A x \in S : order[Earlier(S, before, x) + 1] = x
  <2> HIDE DEF S, order
  <2> QED
    BY <1>1, <1>2, Sorted DEF order
<1> HIDE DEF order
<1>5. \A x \in S : order[x] = x
  BY <1>3, <1>4
<1> QED
  BY <1>1, <1>4, <1>5 DEF order

LEMMA FirstFeatures ==
  ASSUME NEW s \in Seq(Row), NEW k \in 0..Len(s)
  PROVE  FeaturesOf(SubSeq(s, 1, k)) = {s[i].feature : i \in 1..k}
<1>1. Len(s) \in Nat /\ \A i \in 1..Len(s) : s[i] \in Row
  BY LenProperties
<1>2. /\ SubSeq(s, 1, k) \in Seq(Row)
      /\ Len(SubSeq(s, 1, k)) = IF 1 <= k THEN k - 1 + 1 ELSE 0
      /\ \A i \in 1..(k - 1 + 1) : SubSeq(s, 1, k)[i] = s[1 + i - 1]
  BY <1>1, SubSeqProperties
<1>3. DOMAIN SubSeq(s, 1, k) = 1..k
  BY <1>1, <1>2, LenProperties
<1>4. \A i \in 1..k : SubSeq(s, 1, k)[i] = s[i]
  BY <1>1, <1>2
<1> QED
  BY <1>3, <1>4 DEF FeaturesOf

\* Claims in the order of an attribution's ranking cite its first features.
LEMMA RankedClaimsCite ==
  ASSUME NEW a, IsAttribution(a), NEW k \in 1..TopK,
         NEW cs, DOMAIN cs = 1..Least(TopK, Len(a)),
         \A i \in 1..Least(TopK, Len(a)) :
           cs[i].feature = Ranked(a)[i].feature /\ cs[i].rank = i
  PROVE  Cited(cs, Vocabulary, k) = FeaturesOf(SubSeq(Ranked(a), 1, Least(k, Len(a))))
<1> DEFINE m == Least(TopK, Len(a))
           Before(i, j) ==
             IF cs[i].rank = None THEN cs[j].rank = None /\ i < j
             ELSE IF cs[j].rank = None THEN TRUE
             ELSE \/ cs[i].rank < cs[j].rank
                  \/ cs[i].rank = cs[j].rank /\ i < j
           firsts == {i \in DOMAIN cs : /\ cs[i].feature \in Vocabulary
                                        /\ \A j \in DOMAIN cs :
                                             cs[j].feature = cs[i].feature
                                               => i = j \/ Before(i, j)}
           before == {p \in firsts \X firsts : Before(p[1], p[2])}
           order == InOrder(firsts, before)
<1>1. /\ m \in Nat /\ m <= Len(a) /\ Len(a) \in Nat /\ TopK \in Nat /\ DOMAIN cs = 1..m
      /\ \A i \in 1..m : cs[i].feature = Ranked(a)[i].feature /\ cs[i].rank = i
  <2>1. Len(a) \in Nat /\ TopK \in Nat
    BY RankedIsSorted, TopKAssumption
  <2>2. m \in 0..Len(a)
    BY TopIsAPrefix
  <2> HIDE DEF m
  <2> QED
    BY <2>1, <2>2 DEF m
<1>2. /\ \A i \in 1..m : Ranked(a)[i].feature \in Vocabulary
      /\ \A i, j \in 1..m : Ranked(a)[i].feature = Ranked(a)[j].feature => i = j
      /\ Ranked(a) \in Seq(Row) /\ Len(Ranked(a)) = Len(a)
  <2>1. /\ Ranked(a) \in Seq(Row) /\ Len(Ranked(a)) = Len(a)
        /\ \A i \in 1..Len(a) : Ranked(a)[i] \in Row
        /\ \A i, j \in 1..Len(a) : Ranked(a)[i].feature = Ranked(a)[j].feature => i = j
    BY RankedIsSorted
  <2>2. \A r \in Row : r.feature \in Vocabulary
    <3> HIDE DEF Vocabulary
    <3> QED
      BY DEF Row
  <2>3. \A i \in 1..m : i \in 1..Len(a)
    <3> HIDE DEF m
    <3> QED
      BY <1>1
  <2> HIDE DEF m
  <2> QED
    BY <2>1, <2>2, <2>3
<1>3. {r \in 1..m : r <= k} = 1..Least(k, Len(a)) /\ Least(k, Len(a)) \in 0..Len(a)
  BY <1>1 DEF Least
<1>4. Cited(cs, Vocabulary, k) = {cs[order[r]].feature : r \in {q \in DOMAIN order : q <= k}}
  BY DEF Cited
<1> HIDE DEF m
<1>5. \A i, j \in 1..m : Before(i, j) <=> i < j
  BY <1>1, NoneAssumption
<1>6. firsts = 1..m
  <2>1. \A i, j \in 1..m : cs[j].feature = cs[i].feature => i = j
    BY <1>1, <1>2
  <2>2. \A i \in 1..m : cs[i].feature \in Vocabulary
    BY <1>1, <1>2
  <2> HIDE DEF Before, Vocabulary
  <2> QED
    BY <1>1, <2>1, <2>2
<1>7. \A i, j \in 1..m : <<i, j>> \in before <=> i < j
  <2> HIDE DEF Before, firsts
  <2> QED
    BY <1>5, <1>6
<1>8. DOMAIN order = 1..m /\ \A r \in 1..m : order[r] = r
  <2> HIDE DEF before, firsts
  <2> QED
    BY <1>1, <1>6, <1>7, NumbersAreInOrder
<1> HIDE DEF order
<1>9. Cited(cs, Vocabulary, k) = {Ranked(a)[r].feature : r \in 1..Least(k, Len(a))}
  <2>1. {q \in DOMAIN order : q <= k} = 1..Least(k, Len(a))
    BY <1>3, <1>8
  <2>2. \A r \in 1..Least(k, Len(a)) : r \in 1..m
    BY <1>3
  <2>3. \A r \in 1..Least(k, Len(a)) : cs[order[r]].feature = Ranked(a)[r].feature
    BY <1>1, <1>8, <2>2
  <2> QED
    BY <1>4, <2>1, <2>3
<1> QED
  BY <1>2, <1>3, <1>9, FirstFeatures

LEMMA FaithfulClaimsCite ==
  ASSUME NEW a, IsAttribution(a), NEW k \in 1..TopK
  PROVE  Cited(FaithfulClaims(a), Vocabulary, k)
           = FeaturesOf(SubSeq(Ranked(a), 1, Least(k, Len(a))))
<1> DEFINE cs == FaithfulClaims(a)
           m == Least(TopK, Len(a))
<1>1. DOMAIN cs = 1..m
  BY FaithfulClaimsOf
<1>2. ASSUME NEW i \in 1..m PROVE cs[i].feature = Ranked(a)[i].feature /\ cs[i].rank = i
  <2>1. cs[i] = [feature |-> Ranked(a)[i].feature, direction |-> SignOf(Ranked(a)[i].value),
                 rank |-> i, magnitude |-> Abs(Ranked(a)[i].value), evidence |-> None]
    BY FaithfulClaimsOf
  <2> HIDE DEF cs
  <2> QED
    BY <2>1
<1> HIDE DEF cs
<1> QED
  BY <1>1, <1>2, RankedClaimsCite DEF cs

\* An instance's explanation, its claims and every measure of them are about one
\* class and one ranking, for any detector, head and attribution.
THEOREM OneClassStays == Spec => []OneClassThroughout
<1>1. ASSUME BatteryInductive, instance # None PROVE OneClassThroughout
  <2> DEFINE d == instance.detector
             a == instance.attribution
             class == instance.explained
             label == ScoreLabel(d, class)
             LabelScore(erased) == IF Binary(d) THEN AttackProbability(d, erased)
                                   ELSE PredictProba(d, erased)[Column(d, label)]
  <2>1. /\ Met(d) /\ IsAttribution(a) /\ instance.faithful = FaithfulClaims(a)
        /\ class = Explained(d)
    BY <1>1, InstancesAreSound DEF BatteryInductive
  <2>2. TargetClass(d, None) = class /\ TargetClass(d, class) = class
    BY <2>1, TargetsAreExplained
  <2>3. PICK c \in 1..Len(d.classes) : class = d.classes[c]
    BY <2>1, TargetsAreExplained
  <2>4. Column(d, class) = c
    BY <2>1, <2>3, ColumnsAreFound
  <2>5. FeaturesOf(a) = Vocabulary
    BY <2>1, AttributionsName
  <2>6. /\ Len(d.classes) \in Nat /\ Len(d.classes) > 1
        /\ \A i, j \in 1..Len(d.classes) : d.classes[i] = d.classes[j] => i = j
        /\ \A erased : \A i \in 1..Len(d.classes) : PredictProba(d, erased)[i] \in Int
        /\ Binary(d) =>
             /\ d.classes[1] = Benign
             /\ \A erased : PredictProba(d, erased)[1] + PredictProba(d, erased)[2] = Whole
    BY <2>1, DetectorsReport
  <2>7. Binary(d) => c = 2 /\ Len(d.classes) = 2 /\ Column(d, Benign) = 1
    <3>1. Binary(d) => class = d.classes[2] /\ Len(d.classes) = 2
      BY <2>1 DEF Explained, Last, Binary
    <3>2. Binary(d) => Column(d, Benign) = 1
      BY <2>1, <2>6, <3>1, ColumnsAreFound
    <3> QED
      BY <2>3, <2>6, <3>1, <3>2
  <2>8. ~Binary(d) => label = class /\ label = PredictionView(d).class
    BY <2>1 DEF ScoreLabel, PredictionView, Explained
  <2>9. IF Binary(d) THEN label = "attack" /\ class # Benign
        ELSE label = class /\ label = PredictionView(d).class
    BY <2>3, <2>6, <2>7, <2>8 DEF ScoreLabel
  <2>10. ASSUME NEW measure, NEW k \in 1..TopK
         PROVE  EpsModel(measure, instance.faithful, d, k) = EpsAtt(measure, a, class, d, k)
    <3>1. Cited(instance.faithful, Vocabulary, k)
            = FeaturesOf(SubSeq(Ranked(a), 1, Least(k, Len(a))))
      BY <2>1, FaithfulClaimsCite
    <3>2. Len(Ranked(a)) = Len(a)
      BY <2>1, RankedIsSorted
    <3> HIDE DEF d, a, class
    <3> QED
      BY <2>2, <2>5, <3>1, <3>2 DEF EpsModel, EpsAtt, Least
  <2>11. ASSUME NEW erased
         PROVE  Drop(d, erased, class) = LabelScore({}) - LabelScore(erased)
    <3> DEFINE P(e) == PredictProba(d, e)
    <3>1. Drop(d, erased, class) = P({})[c] - P(erased)[c]
      BY <2>4 DEF Drop
    <3>2. CASE Binary(d)
      <4>1. /\ \A e : P(e)[1] \in Int /\ P(e)[2] \in Int /\ P(e)[1] + P(e)[2] = Whole
            /\ \A e : LabelScore(e) = Whole - P(e)[1]
        BY <2>6, <2>7, <3>2 DEF AttackProbability
      <4> HIDE DEF P, LabelScore
      <4>2. \A e : LabelScore(e) = P(e)[2]
        <5> TAKE e
        <5>1. P(e)[1] \in Int /\ P(e)[2] \in Int /\ P(e)[1] + P(e)[2] = Whole
          BY <4>1
        <5> QED
          BY <4>1, <5>1
      <4> QED
        BY <2>7, <3>1, <3>2, <4>2
    <3>3. CASE ~Binary(d)
      BY <2>4, <2>8, <3>1, <3>3
    <3> QED
      BY <3>2, <3>3
  <2>12. ASSUME NEW k \in DOMAIN Top(a)
         PROVE  EpsAtt("comprehensiveness", a, class, d, k)
                  = LabelScore({}) - LabelScore(FeaturesOf(SubSeq(Top(a), 1, k)))
    <3> DEFINE m == Least(TopK, Len(a))
    <3>1. /\ Top(a) \in Seq(Row) /\ Len(Top(a)) = m /\ k \in 1..m
          /\ \A i \in 1..m : Top(a)[i] = Ranked(a)[i]
          /\ Ranked(a) \in Seq(Row) /\ Len(Ranked(a)) = Len(a) /\ Len(a) \in Nat
          /\ m \in 0..Len(a)
      BY <2>1, TopIsAPrefix, RankedIsSorted
    <3> HIDE DEF m
    <3>2. (IF k < Len(Ranked(a)) THEN k ELSE Len(Ranked(a))) = k /\ k \in 0..Len(a) /\ k \in 0..m
      BY <3>1
    <3>3. FeaturesOf(SubSeq(Ranked(a), 1, k)) = {Ranked(a)[i].feature : i \in 1..k}
      BY <3>1, <3>2, FirstFeatures
    <3>4. FeaturesOf(SubSeq(Top(a), 1, k)) = {Top(a)[i].feature : i \in 1..k}
      BY <3>1, <3>2, FirstFeatures
    <3>5. FeaturesOf(SubSeq(Ranked(a), 1, k)) = FeaturesOf(SubSeq(Top(a), 1, k))
      <4>1. \A i \in 1..k : Top(a)[i] = Ranked(a)[i]
        BY <3>1, <3>2
      <4>2. {Top(a)[i].feature : i \in 1..k} = {Ranked(a)[i].feature : i \in 1..k}
        BY <4>1
      <4> QED
        BY <3>3, <3>4, <4>2
    <3>6. EpsAtt("comprehensiveness", a, class, d, k)
            = Drop(d, FeaturesOf(SubSeq(Ranked(a), 1, k)), class)
      <4> HIDE DEF a, d, class
      <4> QED
        BY <2>2, <3>2 DEF EpsAtt, Removed
    <3> HIDE DEF LabelScore, a, d, class
    <3> QED
      BY <2>11, <3>5, <3>6
  <2> QED
    BY <2>9, <2>10, <2>12 DEF OneClassThroughout
<1>2. BatteryInductive => OneClassThroughout
  BY <1>1 DEF OneClassThroughout
<1> QED
  BY <1>2, BatteryInvariance, PTL

(***************************************************************************)
(* Where the rule engine finds the features.                               *)
(***************************************************************************)
\* The words of a text (that a literal is a string is beyond the provers).
Word == STRING \cup {"increases", "decreases", Stop}

Variant == [words : Seq(Word), canon : Vocabulary]
Mention == [feature : Vocabulary, start : Int, end : Int]
AnyFound == [consumed : SUBSET Int, mentions : SUBSET Mention]

LEMMA StringsAreTexts == Seq(STRING) \subseteq Seq(Word)
<1> DEFINE S == STRING
<1>1. S \subseteq Word
  BY DEF Word
<1> HIDE DEF S
<1>2. Seq(S) \subseteq Seq(Word)
  BY <1>1, SeqMonotonic
<1> QED
  BY <1>2 DEF S

LEMMA VariantsAreTyped == Variants \in Seq(Variant)
<1> DEFINE V == [words : Seq(STRING), canon : Vocabulary]
<1>1. V \subseteq Variant
  <2>1. \A v \in V : v \in Variant
    <3> HIDE DEF Vocabulary
    <3> QED
      BY StringsAreTexts DEF Variant
  <2> QED
    BY <2>1
<1>2. Variants \in Seq(V)
  BY ExtractionAssumption
<1> HIDE DEF V
<1> QED
  BY <1>1, <1>2, SeqMonotonic

\* The variants, longest first, are the variants.
LEMMA VariantsAreSorted ==
  /\ Len(Variants) \in Nat /\ DOMAIN LongestFirst = 1..Len(Variants)
  /\ Len(LongestFirst) = Len(Variants)
  /\ \A r \in 1..Len(Variants) : LongestFirst[r] \in Variant
  /\ \A r \in 1..Len(Variants) : Len(LongestFirst[r].words) \in Nat \ {0}
  /\ \A r \in 1..Len(Variants) : \E i \in 1..Len(Variants) : LongestFirst[r] = Variants[i]
  /\ \A i \in 1..Len(Variants) : \E r \in 1..Len(Variants) : LongestFirst[r] = Variants[i]
  /\ \A q, r \in 1..Len(Variants) :
       q < r => Len(LongestFirst[q].words) >= Len(LongestFirst[r].words)
<1> DEFINE n == Len(Variants)
           key == [i \in DOMAIN Variants |-> Len(Variants[i].words)]
           order == LargestFirst(key)
<1>1. Variants \in Seq(Variant) /\ \A i \in DOMAIN Variants : Len(Variants[i].words) > 0
  BY ExtractionAssumption, VariantsAreTyped
<1>2. n \in Nat /\ DOMAIN Variants = 1..n /\ \A i \in 1..n : Variants[i] \in Variant
  BY <1>1, LenProperties
<1>3. \A i \in 1..n : Variants[i].words \in Seq(Word)
  BY <1>2 DEF Variant
<1>4. \A i \in 1..n : Len(Variants[i].words) \in Nat \ {0}
  BY <1>1, <1>2, <1>3, LenProperties
<1>5. key \in [1..n -> Int] /\ \A i \in 1..n : key[i] = Len(Variants[i].words)
  BY <1>2, <1>4
<1>6. LongestFirst = [r \in 1..n |-> Variants[order[r]]]
  BY <1>2 DEF LongestFirst
<1> HIDE DEF key, n
<1>7. /\ order \in [1..n -> 1..n]
      /\ \A i \in 1..n : \E r \in 1..n : order[r] = i
      /\ \A q, r \in 1..n : q < r => key[order[q]] >= key[order[r]]
  BY <1>2, <1>5, LargestFirstSorts
<1> HIDE DEF order
<1>8. \A r \in 1..n : LongestFirst[r] = Variants[order[r]] /\ order[r] \in 1..n
  BY <1>6, <1>7
<1>9. DOMAIN LongestFirst = 1..n /\ LongestFirst = [r \in 1..n |-> LongestFirst[r]]
  BY <1>6
<1>10. Len(LongestFirst) = n
  BY <1>2, <1>9, FunctionsAreLists
<1>11. ASSUME NEW q \in 1..n, NEW r \in 1..n, q < r
       PROVE  Len(LongestFirst[q].words) >= Len(LongestFirst[r].words)
  <2>1. key[order[q]] >= key[order[r]]
    BY <1>7, <1>11
  <2>2. key[order[q]] = Len(LongestFirst[q].words) /\ key[order[r]] = Len(LongestFirst[r].words)
    BY <1>5, <1>8
  <2> QED
    BY <2>1, <2>2
<1>12. ASSUME NEW i \in 1..n PROVE \E r \in 1..n : LongestFirst[r] = Variants[i]
  <2>1. PICK r \in 1..n : order[r] = i
    BY <1>7
  <2> QED
    BY <1>8, <2>1
<1> QED
  BY <1>2, <1>4, <1>8, <1>9, <1>10, <1>11, <1>12 DEF n

\* An occurrence of a name is where its words stand.
LEMMA OccurrencesAre ==
  ASSUME NEW t \in Seq(Word), NEW words \in Seq(Word)
  PROVE  Occurrences(t, words)
           = {p \in 1..(Len(t) - Len(words) + 1) :
                \A j \in 1..Len(words) : t[p + j - 1] = words[j]}
<1>1. Len(t) \in Nat /\ Len(words) \in Nat /\ \A i \in 1..Len(t) : t[i] \in Word
  BY LenProperties
<1>2. ASSUME NEW p \in 1..(Len(t) - Len(words) + 1)
      PROVE  SubSeq(t, p, p + Len(words) - 1) = words
               <=> \A j \in 1..Len(words) : t[p + j - 1] = words[j]
  <2> DEFINE L == Len(words)
             high == p + L - 1
             part == SubSeq(t, p, high)
  <2>1. /\ high \in Int /\ p \in Int /\ high <= Len(t) /\ high - p + 1 = L
        /\ (IF p <= high THEN high - p + 1 ELSE 0) = L
    BY <1>1
  <2>2. \A i \in p..high : t[i] \in Word
    BY <1>1, <2>1
  <2> HIDE DEF high, L
  <2>3. /\ part \in Seq(Word) /\ Len(part) = L
        /\ \A i \in 1..L : part[i] = t[p + i - 1]
    BY <2>1, <2>2, SubSeqProperties
  <2> HIDE DEF part
  <2>4. part \in [1..L -> Word] /\ words \in [1..L -> Word]
    BY <2>3, LenProperties DEF L
  <2>5. part = words <=> \A j \in 1..L : part[j] = words[j]
    <3> DEFINE D == 1..L
    <3>1. part = [j \in D |-> part[j]] /\ words = [j \in D |-> words[j]]
      BY <2>4
    <3> HIDE DEF D
    <3>2. part = words <=> \A j \in D : part[j] = words[j]
      BY <3>1
    <3> QED
      BY <3>2 DEF D
  <2>6. part = words <=> \A j \in 1..L : t[p + j - 1] = words[j]
    BY <2>3, <2>5
  <2> QED
    BY <2>6 DEF part, high, L
<1> QED
  BY <1>2 DEF Occurrences

LEMMA SpansAreIntervals ==
  ASSUME NEW p \in Int, NEW words, Len(words) \in Nat \ {0}
  PROVE  /\ Span(p, words) = p..(p + Len(words) - 1)
         /\ Min(Span(p, words)) = p /\ Max(Span(p, words)) = p + Len(words) - 1
<1> DEFINE L == Len(words)
           S == Span(p, words)
<1>1. S = p..(p + L - 1)
  BY DEF Span
<1>2. IsFiniteSet(S)
  <2>1. IsFiniteSet(p..(p + L - 1))
    BY FS_Interval
  <2> QED
    BY <1>1, <2>1
<1>3. p \in S /\ p + L - 1 \in S /\ S \subseteq Int
  BY <1>1
<1> HIDE DEF S
<1>4. /\ Min(S) \in S /\ \A y \in S : Min(S) <= y
      /\ Max(S) \in S /\ \A y \in S : Max(S) >= y
  BY <1>2, <1>3, Extremes
<1>5. Min(S) = p
  <2> DEFINE x == Min(S)
  <2>1. x \in p..(p + L - 1) /\ x <= p
    BY <1>1, <1>3, <1>4
  <2> HIDE DEF x
  <2>2. x = p
    BY <2>1
  <2> QED
    BY <2>2 DEF x
<1>6. Max(S) = p + L - 1
  <2> DEFINE x == Max(S)
  <2>1. x \in p..(p + L - 1) /\ x >= p + L - 1
    BY <1>1, <1>3, <1>4
  <2> HIDE DEF x
  <2>2. x = p + L - 1
    BY <2>1
  <2> QED
    BY <2>2 DEF x
<1> QED
  BY <1>1, <1>5, <1>6 DEF S

\* Where a name stands outside what is consumed.
Free(t, consumed, words) ==
  {p \in Occurrences(t, words) : Span(p, words) \cap consumed = {}}

Told(v, p) == [feature |-> v.canon, start |-> p, end |-> p + Len(v.words) - 1]

\* A variant takes its first free occurrence.
LEMMA Consumes ==
  ASSUME NEW t \in Seq(Word), NEW v \in Variant, Len(v.words) \in Nat \ {0}, NEW found
  PROVE  LET free == Free(t, found.consumed, v.words)
             p == Min(free)
             known == {m \in found.mentions : m.feature = v.canon}
         IN /\ free = {} => Consume(t, found, v) = found
            /\ free # {} =>
                 /\ p \in free /\ \A q \in free : p <= q
                 /\ p \in 1..Len(t) /\ p + Len(v.words) - 1 \in 1..Len(t)
                 /\ Consume(t, found, v) =
                      [consumed |-> found.consumed \cup p..(p + Len(v.words) - 1),
                       mentions |-> IF \E m \in known : m.start < p THEN found.mentions
                                    ELSE (found.mentions \ known) \cup {Told(v, p)}]
<1> DEFINE free == Free(t, found.consumed, v.words)
           p == Min(free)
           L == Len(v.words)
           known == {m \in found.mentions : m.feature = v.canon}
           span == Span(p, v.words)
<1>1. Len(t) \in Nat /\ L \in Nat \ {0} /\ v.words \in Seq(Word)
  BY LenProperties DEF Variant
<1>2. free \subseteq 1..(Len(t) - L + 1)
  BY DEF Free, Occurrences
<1>3. Consume(t, found, v) =
        IF free = {} THEN found
        ELSE [consumed |-> found.consumed \cup span,
              mentions |->
                IF \E m \in known : m.start < Min(span) THEN found.mentions
                ELSE (found.mentions \ known)
                       \cup {[feature |-> v.canon, start |-> Min(span), end |-> Max(span)]}]
  BY DEF Consume, Free
<1>4. CASE free = {}
  BY <1>3, <1>4
<1>5. CASE free # {}
  <2> HIDE DEF free, L
  <2>1. IsFiniteSet(free) /\ free \subseteq Int
    <3>1. IsFiniteSet(1..(Len(t) - L + 1)) /\ 1..(Len(t) - L + 1) \subseteq Int
      BY <1>1, FS_Interval
    <3>2. free \in SUBSET (1..(Len(t) - L + 1))
      BY <1>2
    <3> QED
      BY <3>1, <3>2, FS_Subset
  <2>2. p \in free /\ \A q \in free : p <= q
    BY <1>5, <2>1, Extremes
  <2> HIDE DEF p
  <2>3. p \in 1..(Len(t) - L + 1)
    BY <1>2, <2>2
  <2>4. p \in 1..Len(t) /\ p + L - 1 \in 1..Len(t)
    BY <1>1, <2>3
  <2>5. span = p..(p + L - 1) /\ Min(span) = p /\ Max(span) = p + L - 1
    <3>1. p \in Int /\ Len(v.words) \in Nat \ {0}
      BY <1>1, <2>3 DEF L
    <3> QED
      BY <3>1, SpansAreIntervals DEF L
  <2> HIDE DEF span, known
  <2>6. Consume(t, found, v) =
          [consumed |-> found.consumed \cup p..(p + L - 1),
           mentions |-> IF \E m \in known : m.start < p THEN found.mentions
                        ELSE (found.mentions \ known) \cup {Told(v, p)}]
    BY <1>3, <1>5, <2>5 DEF Told, L
  <2> QED
    BY <1>5, <2>2, <2>4, <2>6 DEF p, L, free, known
<1> QED
  BY <1>4, <1>5

LEMMA ConsumedIsTyped ==
  ASSUME NEW t \in Seq(Word), NEW v \in Variant, Len(v.words) \in Nat \ {0},
         NEW found \in AnyFound
  PROVE  Consume(t, found, v) \in AnyFound
<1> DEFINE free == Free(t, found.consumed, v.words)
           p == Min(free)
           known == {m \in found.mentions : m.feature = v.canon}
           span == p..(p + Len(v.words) - 1)
           mentions == IF \E m \in known : m.start < p THEN found.mentions
                       ELSE (found.mentions \ known) \cup {Told(v, p)}
<1>1. found.consumed \in SUBSET Int /\ found.mentions \in SUBSET Mention
  BY DEF AnyFound
<1>2. CASE free = {}
  BY <1>2, Consumes
<1>3. CASE free # {}
  <2>1. p \in 1..Len(t) /\ Consume(t, found, v) =
          [consumed |-> found.consumed \cup span, mentions |-> mentions]
    BY <1>3, Consumes
  <2>2. Told(v, p) \in Mention /\ span \in SUBSET Int
    <3> HIDE DEF p
    <3>1. p \in Int /\ p + Len(v.words) - 1 \in Int /\ v.canon \in Vocabulary
      BY <2>1 DEF Variant
    <3> HIDE DEF Vocabulary
    <3> QED
      BY <3>1 DEF Told, Mention
  <2>3. mentions \in SUBSET Mention
    <3> HIDE DEF p
    <3> QED
      BY <1>1, <2>2
  <2>4. found.consumed \cup span \in SUBSET Int
    <3> HIDE DEF span
    <3> QED
      BY <1>1, <2>2
  <2> HIDE DEF mentions, span, free, p
  <2> QED
    BY <2>1, <2>3, <2>4 DEF AnyFound
<1> QED
  BY <1>2, <1>3

\* What the first k variants find is a recursion along the variants.
LEMMA FoundInTurn ==
  ASSUME NEW t \in Seq(Word)
  PROVE  /\ Found(t, 0) = [consumed |-> {}, mentions |-> {}]
         /\ \A k \in 1..Len(Variants) :
              Found(t, k) = Consume(t, Found(t, k - 1), LongestFirst[k])
<1> DEFINE n == Len(LongestFirst)
           none == [consumed |-> {}, mentions |-> {}]
           found == CHOOSE h : h = [k \in 0..n |-> IF k = 0 THEN none
                                                   ELSE Consume(t, h[k - 1], LongestFirst[k])]
           step == [k \in 1..n |-> [x \in AnyFound |-> Consume(t, x, LongestFirst[k])]]
<1>1. \A k : Found(t, k) = found[k]
  BY DEF Found
<1>2. n \in Nat /\ n = Len(Variants)
  BY VariantsAreSorted
<1>3. none \in AnyFound
  BY DEF AnyFound
<1>4. step \in [1..n -> [AnyFound -> AnyFound]]
  <2>1. ASSUME NEW k \in 1..n, NEW x \in AnyFound
        PROVE  Consume(t, x, LongestFirst[k]) \in AnyFound
    <3>1. LongestFirst[k] \in Variant /\ Len(LongestFirst[k].words) \in Nat \ {0}
      BY <1>2, VariantsAreSorted
    <3> QED
      BY <3>1, ConsumedIsTyped
  <2> HIDE DEF n
  <2> QED
    BY <2>1
<1>5. PICK g \in [0..n -> AnyFound] : Solves(g, n, none, step)
  <2> HIDE DEF step, n, none
  <2> QED
    BY <1>2, <1>3, <1>4, Recursion
<1>6. g = [k \in 0..n |-> IF k = 0 THEN none ELSE Consume(t, g[k - 1], LongestFirst[k])]
  <2> HIDE DEF none, n
  <2>1. \A k \in 1..n : k - 1 \in 0..n
    BY <1>2
  <2>2. \A k \in 1..n : step[k][g[k - 1]] = Consume(t, g[k - 1], LongestFirst[k])
    BY <2>1
  <2> HIDE DEF step
  <2>3. g[0] = none /\ \A k \in 1..n : g[k] = Consume(t, g[k - 1], LongestFirst[k])
    BY <1>5, <2>2 DEF Solves
  <2>4. \A k \in 0..n : g[k] = IF k = 0 THEN none ELSE Consume(t, g[k - 1], LongestFirst[k])
    <3> TAKE k \in 0..n
    <3>1. k = 0 \/ k \in 1..n
      BY <1>2
    <3> QED
      BY <1>2, <2>3, <3>1
  <2> QED
    BY <2>4
<1>7. found = [k \in 0..n |-> IF k = 0 THEN none ELSE Consume(t, found[k - 1], LongestFirst[k])]
  <2> HIDE DEF none, n
  <2> QED
    BY <1>6
<1> HIDE DEF found, none, n
<1>8. found[0] = none /\ \A k \in 1..n : found[k] = Consume(t, found[k - 1], LongestFirst[k])
  BY <1>2, <1>7
<1> QED
  BY <1>1, <1>2, <1>8 DEF none

\* What holds of what is found so far.  Mentions stand where the words of a name
\* stand, and no two begin at the same word.
Stands(t, m) ==
  /\ 1 <= m.start /\ m.start <= m.end /\ m.end <= Len(t)
  /\ \E i \in DOMAIN Variants :
       /\ m.feature = Variants[i].canon
       /\ Len(Variants[i].words) = m.end - m.start + 1
       /\ \A j \in 1..Len(Variants[i].words) : t[m.start + j - 1] = Variants[i].words[j]

Placed(t, found) ==
  /\ found \in AnyFound
  /\ IsFiniteSet(found.mentions)
  /\ \A m \in found.mentions : m.start..m.end \subseteq found.consumed /\ Stands(t, m)
  /\ \A m, o \in found.mentions : m.start = o.start => m = o

LEMMA ConsumingPlaces ==
  ASSUME NEW t \in Seq(Word), NEW k \in 1..Len(Variants), NEW found, Placed(t, found)
  PROVE  Placed(t, Consume(t, found, LongestFirst[k]))
<1> DEFINE v == LongestFirst[k]
           free == Free(t, found.consumed, v.words)
           p == Min(free)
           L == Len(v.words)
           known == {m \in found.mentions : m.feature = v.canon}
           span == p..(p + L - 1)
           new == Told(v, p)
           rest == found.mentions \ known
           after == Consume(t, found, v)
<1>1. v \in Variant /\ L \in Nat \ {0} /\ v.words \in Seq(Word)
  BY VariantsAreSorted DEF Variant
<1>2. after \in AnyFound
  BY <1>1, ConsumedIsTyped DEF Placed
<1>3. CASE free = {}
  BY <1>1, <1>3, Consumes
<1>4. CASE free # {}
  <2>1. /\ p \in free /\ p \in 1..Len(t) /\ p + L - 1 \in 1..Len(t)
        /\ after = [consumed |-> found.consumed \cup span,
                    mentions |-> IF \E m \in known : m.start < p THEN found.mentions
                                 ELSE rest \cup {new}]
    BY <1>1, <1>4, Consumes
  <2>2. /\ Span(p, v.words) \cap found.consumed = {}
        /\ \A j \in 1..L : t[p + j - 1] = v.words[j]
    <3>1. p \in Occurrences(t, v.words) /\ Span(p, v.words) \cap found.consumed = {}
      BY <2>1 DEF Free
    <3> HIDE DEF p, v
    <3>2. Occurrences(t, v.words)
            = {q \in 1..(Len(t) - Len(v.words) + 1) :
                 \A j \in 1..Len(v.words) : t[q + j - 1] = v.words[j]}
      BY <1>1, OccurrencesAre
    <3> QED
      BY <3>1, <3>2
  <2> HIDE DEF p, free
  <2>3. p \in Int /\ Len(t) \in Nat
    BY <2>1, LenProperties
  <2>4. Span(p, v.words) = span
    BY <1>1, <2>3, SpansAreIntervals
  <2>5. new.start = p /\ new.end = p + L - 1 /\ new.feature = v.canon
    BY DEF Told
  <2>6. Stands(t, new)
    <3>1. 1 <= new.start /\ new.start <= new.end /\ new.end <= Len(t)
      BY <1>1, <2>1, <2>3, <2>5
    <3>2. PICK i \in 1..Len(Variants) : v = Variants[i]
      BY VariantsAreSorted
    <3>3. i \in DOMAIN Variants
      BY <3>2, ExtractionAssumption, LenProperties
    <3>4. L = new.end - new.start + 1
      BY <1>1, <2>3, <2>5
    <3> HIDE DEF v, new
    <3>5. /\ new.feature = Variants[i].canon /\ Len(Variants[i].words) = new.end - new.start + 1
          /\ \A j \in 1..Len(Variants[i].words) : t[new.start + j - 1] = Variants[i].words[j]
      BY <2>2, <2>5, <3>2, <3>4
    <3> QED
      BY <3>1, <3>3, <3>5 DEF Stands
  <2>7. \A m \in found.mentions : m.start..m.end \subseteq found.consumed /\ Stands(t, m)
    BY DEF Placed
  <2>8. \A m \in found.mentions : m.start # new.start
    <3> SUFFICES ASSUME NEW m \in found.mentions, m.start = p PROVE FALSE
      BY <2>5
    <3>1. m \in Mention
      BY DEF Placed, AnyFound
    <3>2. m.start \in Int /\ m.end \in Int
      BY <3>1 DEF Mention
    <3>3. m.start <= m.end /\ m.start..m.end \subseteq found.consumed
      BY <2>7 DEF Stands
    <3>4. p \in m.start..m.end
      BY <3>2, <3>3
    <3>5. p \in span
      BY <1>1, <2>3
    <3> HIDE DEF span
    <3> QED
      BY <2>2, <2>4, <3>3, <3>4, <3>5
  <2>9. new.start..new.end = span
    BY <2>5
  <2>10. IsFiniteSet(rest \cup {new}) /\ IsFiniteSet(found.mentions)
    <3>1. IsFiniteSet(found.mentions)
      BY DEF Placed
    <3> HIDE DEF known, new
    <3>2. IsFiniteSet(rest)
      BY <3>1, FS_Difference
    <3> QED
      BY <3>1, <3>2, FS_AddElement
  <2>11. \A m, o \in found.mentions : m.start = o.start => m = o
    BY DEF Placed
  <2>12. CASE \E m \in known : m.start < p
    <3>1. after.mentions = found.mentions /\ after.consumed = found.consumed \cup span
      BY <2>1, <2>12
    <3> HIDE DEF after, span, new, known
    <3>2. \A m \in after.mentions : m.start..m.end \subseteq after.consumed /\ Stands(t, m)
      BY <2>7, <3>1
    <3>3. Placed(t, after)
      BY <1>2, <2>10, <2>11, <3>1, <3>2 DEF Placed
    <3> QED
      BY <3>3 DEF after
  <2>13. CASE ~ \E m \in known : m.start < p
    <3>1. after.mentions = rest \cup {new} /\ after.consumed = found.consumed \cup span
      BY <2>1, <2>13
    <3> HIDE DEF after, span, new, known
    <3>2. \A m \in rest : m \in found.mentions
      OBVIOUS
    <3>3. \A m \in after.mentions : m.start..m.end \subseteq after.consumed /\ Stands(t, m)
      BY <2>6, <2>7, <2>9, <3>1, <3>2
    <3>4. \A m, o \in after.mentions : m.start = o.start => m = o
      BY <2>8, <2>11, <3>1, <3>2
    <3>5. Placed(t, after)
      BY <1>2, <2>10, <3>1, <3>3, <3>4 DEF Placed
    <3> QED
      BY <3>5 DEF after
  <2> QED
    BY <2>12, <2>13
<1> QED
  BY <1>3, <1>4

LEMMA FoundIsPlaced ==
  ASSUME NEW t \in Seq(Word), NEW k \in 0..Len(Variants)
  PROVE  Placed(t, Found(t, k))
<1> DEFINE placed == {j \in Nat : j <= Len(Variants) => Placed(t, Found(t, j))}
<1>0. Len(Variants) \in Nat
  BY VariantsAreSorted
<1>1. 0 \in placed
  <2> DEFINE none == [consumed |-> {}, mentions |-> {}]
  <2>1. Found(t, 0) = none
    BY FoundInTurn
  <2>2. none \in AnyFound /\ none.mentions = {}
    BY DEF AnyFound
  <2> HIDE DEF none
  <2>3. Placed(t, none)
    BY <2>2, FS_EmptySet DEF Placed
  <2> QED
    BY <2>1, <2>3
<1>2. ASSUME NEW j \in Nat, j \in placed PROVE j + 1 \in placed
  <2> SUFFICES ASSUME j + 1 <= Len(Variants) PROVE Placed(t, Found(t, j + 1))
    OBVIOUS
  <2>1. Placed(t, Found(t, j)) /\ j + 1 \in 1..Len(Variants) /\ (j + 1) - 1 = j
    BY <1>0, <1>2
  <2>2. Found(t, j + 1) = Consume(t, Found(t, j), LongestFirst[j + 1])
    BY <2>1, FoundInTurn
  <2> QED
    BY <2>1, <2>2, ConsumingPlaces
<1> HIDE DEF placed
<1>3. k \in placed
  BY <1>0, <1>1, <1>2, Reached
<1> QED
  BY <1>0, <1>3 DEF placed

(***************************************************************************)
(* What the rule engine reads at each of them.                             *)
(***************************************************************************)
\* All that is mentioned.
Mentioned(t) == Found(t, Len(Variants)).mentions

LEMMA MentionsStand ==
  ASSUME NEW t \in Seq(Word)
  PROVE  /\ IsFiniteSet(Mentioned(t))
         /\ \A m \in Mentioned(t) :
              /\ m.feature \in Vocabulary /\ m.start \in Nat /\ m.end \in Nat
              /\ 1 <= m.start /\ m.start <= m.end /\ m.end <= Len(t)
              /\ m = [feature |-> m.feature, start |-> m.start, end |-> m.end]
              /\ \A q \in m.start..m.end : t[q] # Stop
         /\ \A m, o \in Mentioned(t) : m.start = o.start => m = o
<1>1. Placed(t, Found(t, Len(Variants)))
  BY VariantsAreSorted, FoundIsPlaced
<1>2. /\ IsFiniteSet(Mentioned(t))
      /\ \A m, o \in Mentioned(t) : m.start = o.start => m = o
      /\ \A m \in Mentioned(t) : Stands(t, m) /\ m \in Mention
  BY <1>1 DEF Placed, Mentioned, AnyFound
<1>3. ASSUME NEW m \in Mentioned(t)
      PROVE  /\ m.feature \in Vocabulary /\ m.start \in Nat /\ m.end \in Nat
             /\ 1 <= m.start /\ m.start <= m.end /\ m.end <= Len(t)
             /\ m = [feature |-> m.feature, start |-> m.start, end |-> m.end]
             /\ \A q \in m.start..m.end : t[q] # Stop
  <2>1. /\ m.feature \in Vocabulary /\ m.start \in Int /\ m.end \in Int
        /\ m = [feature |-> m.feature, start |-> m.start, end |-> m.end]
    <3> HIDE DEF Vocabulary
    <3> QED
      BY <1>2 DEF Mention
  <2>2. 1 <= m.start /\ m.start <= m.end /\ m.end <= Len(t) /\ Len(t) \in Nat
    BY <1>2, LenProperties DEF Stands
  <2>3. PICK i \in DOMAIN Variants :
          /\ Len(Variants[i].words) = m.end - m.start + 1
          /\ \A j \in 1..Len(Variants[i].words) : t[m.start + j - 1] = Variants[i].words[j]
    BY <1>2 DEF Stands
  <2>4. Stop \notin Range(Variants[i].words)
    BY NamesAssumption
  <2>5. DOMAIN Variants[i].words = 1..(m.end - m.start + 1)
    <3>1. Variants[i] \in Variant
      BY VariantsAreTyped, LenProperties
    <3>2. Variants[i].words \in Seq(Word)
      BY <3>1 DEF Variant
    <3> QED
      BY <2>3, <3>2, LenProperties
  <2> DEFINE words == Variants[i].words
  <2>6. ASSUME NEW q \in m.start..m.end PROVE t[q] # Stop
    <3> HIDE DEF words
    <3> DEFINE j == q - m.start + 1
    <3>1. j \in 1..(m.end - m.start + 1) /\ m.start + j - 1 = q
      BY <2>1, <2>2
    <3> HIDE DEF j
    <3>2. t[q] = words[j]
      BY <2>3, <3>1 DEF words
    <3>3. words[j] \in Range(words)
      BY <2>5, <3>1 DEF Range, words
    <3> QED
      BY <2>4, <3>2, <3>3 DEF words
  <2> QED
    BY <2>1, <2>2, <2>6
<1> QED
  BY <1>2, <1>3

StartsBefore(S) == {p \in S \X S : p[1].start < p[2].start}

LEMMA MentionsAreSorted ==
  ASSUME NEW t \in Seq(Word)
  PROVE  LET n == Cardinality(Mentioned(t))
         IN /\ n \in Nat /\ Mentions(t) \in [1..n -> Mentioned(t)] /\ Len(Mentions(t)) = n
            /\ DOMAIN Mentions(t) = 1..n
            /\ \A q, r \in 1..n : q < r <=> Mentions(t)[q].start < Mentions(t)[r].start
            /\ StrictOrder(Mentioned(t), StartsBefore(Mentioned(t)))
            /\ Mentions(t) = InOrder(Mentioned(t), StartsBefore(Mentioned(t)))
<1> DEFINE S == Mentioned(t)
           n == Cardinality(S)
           before == StartsBefore(S)
<1>1. \A m \in S : m.start \in Nat
  BY MentionsStand
<1>2. \A m, o \in S : m.start = o.start => m = o
  BY MentionsStand
<1>3. IsFiniteSet(S)
  BY MentionsStand
<1>4. Mentions(t) = InOrder(S, before)
  BY VariantsAreSorted DEF Mentions, Mentioned, StartsBefore
<1> HIDE DEF S
<1>5. \A x, y \in S : <<x, y>> \in before <=> x.start < y.start
  BY DEF StartsBefore
<1> HIDE DEF before
<1>6. StrictOrder(S, before)
  <2>1. \A x \in S : <<x, x>> \notin before
    BY <1>1, <1>5
  <2>2. \A x, y \in S : x = y \/ <<x, y>> \in before \/ <<y, x>> \in before
    <3> TAKE x \in S, y \in S
    <3>1. x.start \in Nat /\ y.start \in Nat
      BY <1>1
    <3>2. x.start < y.start \/ y.start < x.start \/ x.start = y.start
      BY <3>1
    <3> QED
      BY <1>2, <1>5, <3>2
  <2>3. \A x, y, z \in S : <<x, y>> \in before /\ <<y, z>> \in before => <<x, z>> \in before
    <3> TAKE x, y, z \in S
    <3>1. x.start \in Nat /\ y.start \in Nat /\ z.start \in Nat
      BY <1>1
    <3>2. x.start < y.start /\ y.start < z.start => x.start < z.start
      BY <3>1
    <3> QED
      BY <1>5, <3>2
  <2> QED
    BY <2>1, <2>2, <2>3 DEF StrictOrder
<1> DEFINE order == InOrder(S, before)
<1>7. /\ n \in Nat /\ order \in [1..n -> S]
      /\ \A q, r \in 1..n : q < r <=> <<order[q], order[r]>> \in before
  BY <1>3, <1>6, Sorted
<1> HIDE DEF order, n
<1>8. \A q, r \in 1..n : q < r <=> order[q].start < order[r].start
  BY <1>5, <1>7
<1>9. DOMAIN order = 1..n /\ order = [r \in 1..n |-> order[r]]
  BY <1>7
<1>10. Len(order) = n
  BY <1>7, <1>9, FunctionsAreLists
<1> QED
  BY <1>4, <1>6, <1>7, <1>8, <1>9, <1>10 DEF n, S, before, order

Bound(t, i) == IF i < Len(Mentions(t)) THEN Mentions(t)[i + 1].start - 1 ELSE Len(t)

Stops(t, i) == {p \in (Mentions(t)[i].end + 1)..Bound(t, i) : t[p] = Stop}

Until(t, i) == IF Stops(t, i) = {} THEN Bound(t, i) ELSE Min(Stops(t, i)) - 1

\* A window lies in the text, after its mention and before the next.
LEMMA WindowsAre ==
  ASSUME NEW t \in Seq(Word), NEW i \in 1..Len(Mentions(t))
  PROVE  /\ Window(t, Mentions(t), i) = SubSeq(t, Mentions(t)[i].end + 1, Until(t, i))
         /\ Mentions(t)[i].end \in 1..Len(t) /\ Until(t, i) \in 0..Len(t)
         /\ Bound(t, i) \in 0..Len(t) /\ Until(t, i) <= Bound(t, i)
         /\ Stops(t, i) # {} =>
              /\ Until(t, i) + 1 \in Stops(t, i)
              /\ \A q \in Stops(t, i) : Until(t, i) + 1 <= q
         /\ Window(t, Mentions(t), i) \in Seq(Word)
         /\ Len(Window(t, Mentions(t), i)) =
              IF Mentions(t)[i].end + 1 <= Until(t, i) THEN Until(t, i) - Mentions(t)[i].end ELSE 0
         /\ \A j \in 1..Len(Window(t, Mentions(t), i)) :
              /\ Mentions(t)[i].end + j \in 1..Len(t)
              /\ Window(t, Mentions(t), i)[j] = t[Mentions(t)[i].end + j]
<1> DEFINE n == Len(Mentions(t))
           m == Mentions(t)[i]
           e == m.end
           limit == Bound(t, i)
           stops == Stops(t, i)
           last == Until(t, i)
           window == Window(t, Mentions(t), i)
<1>1. n \in Nat /\ \A r \in 1..n : Mentions(t)[r] \in Mentioned(t)
  BY MentionsAreSorted
<1>2. e \in 1..Len(t) /\ Len(t) \in Nat
  <2>1. m \in Mentioned(t) /\ Len(t) \in Nat
    BY <1>1, LenProperties
  <2>2. m.start \in Nat /\ m.end \in Nat /\ 1 <= m.start /\ m.start <= m.end /\ m.end <= Len(t)
    BY <2>1, MentionsStand
  <2> QED
    BY <2>1, <2>2
<1>3. limit \in 0..Len(t)
  <2>1. CASE i < n
    <3>1. Mentions(t)[i + 1] \in Mentioned(t)
      BY <1>1, <2>1
    <3>2. /\ Mentions(t)[i + 1].start \in Nat /\ Mentions(t)[i + 1].end \in Nat
          /\ 1 <= Mentions(t)[i + 1].start /\ Mentions(t)[i + 1].start <= Mentions(t)[i + 1].end
          /\ Mentions(t)[i + 1].end <= Len(t)
      BY <3>1, MentionsStand
    <3> QED
      BY <1>2, <2>1, <3>2 DEF Bound
  <2>2. CASE ~ (i < n)
    BY <1>2, <2>2 DEF Bound
  <2> QED
    BY <2>1, <2>2
<1>4. window = SubSeq(t, e + 1, last)
  BY DEF Window, Until, Stops, Bound
<1>5. IsFiniteSet(stops) /\ stops \subseteq (e + 1)..limit
  <2>1. stops \in SUBSET ((e + 1)..limit)
    BY DEF Stops
  <2>2. IsFiniteSet((e + 1)..limit)
    <3> DEFINE low == e + 1
    <3>1. low \in Int /\ limit \in Int
      BY <1>2, <1>3
    <3> HIDE DEF low, limit
    <3>2. IsFiniteSet(low..limit)
      BY <3>1, FS_Interval
    <3> QED
      BY <3>2 DEF low
  <2> HIDE DEF stops, limit, e
  <2> QED
    BY <2>1, <2>2, FS_Subset
<1> HIDE DEF n, m, e, limit, stops, window
<1>6. stops # {} => Min(stops) \in stops /\ \A q \in stops : Min(stops) <= q
  <2>1. stops \subseteq Int
    BY <1>2, <1>3, <1>5
  <2> QED
    BY <1>5, <2>1, Extremes
<1>7. last = IF stops = {} THEN limit ELSE Min(stops) - 1
  BY DEF Until, stops, limit
<1>8. /\ last \in 0..Len(t) /\ last <= limit
      /\ stops # {} => last + 1 \in stops /\ \A q \in stops : last + 1 <= q
  <2>1. CASE stops = {}
    BY <1>2, <1>3, <1>7, <2>1
  <2>2. CASE stops # {}
    <3> DEFINE x == Min(stops)
    <3>1. x \in stops /\ (\A q \in stops : x <= q) /\ last = x - 1
      BY <1>6, <1>7, <2>2
    <3> HIDE DEF x, last
    <3>2. x \in (e + 1)..limit
      BY <1>5, <3>1
    <3>3. x \in Int /\ last + 1 = x /\ last \in 0..Len(t) /\ last <= limit
      BY <1>2, <1>3, <3>1, <3>2
    <3> QED
      BY <3>1, <3>3
  <2> QED
    BY <2>1, <2>2
<1> HIDE DEF last
<1>9. \A q \in (e + 1)..last : t[q] \in Word
  <2>1. \A q \in 1..Len(t) : t[q] \in Word
    BY LenProperties
  <2>2. \A q \in (e + 1)..last : q \in 1..Len(t)
    BY <1>2, <1>8
  <2> QED
    BY <2>1, <2>2
<1>10. /\ window \in Seq(Word)
       /\ Len(window) = IF e + 1 <= last THEN last - (e + 1) + 1 ELSE 0
       /\ \A j \in 1..(last - (e + 1) + 1) : window[j] = t[(e + 1) + j - 1]
  <2>1. e + 1 \in Int /\ last \in Int
    BY <1>2, <1>8
  <2> QED
    BY <1>4, <1>9, <2>1, SubSeqProperties
<1>11. \A j \in 1..Len(window) : e + j \in 1..Len(t) /\ window[j] = t[e + j]
  <2> TAKE j \in 1..Len(window)
  <2>1. /\ e + 1 <= last /\ Len(window) = last - (e + 1) + 1 /\ Len(window) = last - e
        /\ j \in 1..(last - (e + 1) + 1)
    BY <1>2, <1>8, <1>10
  <2>2. e + j \in 1..Len(t) /\ (e + 1) + j - 1 = e + j
    BY <1>2, <1>8, <2>1
  <2> QED
    BY <1>10, <2>1, <2>2
<1>12. Len(window) = IF e + 1 <= last THEN last - e ELSE 0
  BY <1>2, <1>8, <1>10
<1> QED
  BY <1>2, <1>3, <1>4, <1>8, <1>10, <1>11, <1>12 DEF e, m, limit, stops, last, window

\* What a list of cues holds in a window.
LEMMA CuesAreFound ==
  ASSUME NEW w \in Seq(Word), NEW cues, Holds(w, cues)
  PROVE  FirstOf(w, cues) \in 1..Len(w) /\ w[FirstOf(w, cues)] \in cues
<1> DEFINE S == {p \in DOMAIN w : w[p] \in cues}
<1>1. Len(w) \in Nat /\ DOMAIN w = 1..Len(w)
  BY LenProperties
<1>2. S \subseteq 1..Len(w) /\ S # {}
  BY <1>1 DEF Holds
<1> HIDE DEF S
<1>3. IsFiniteSet(S)
  BY <1>1, <1>2, PlacesAreCounted
<1>4. S \subseteq Int
  BY <1>1, <1>2
<1>5. Min(S) \in S
  BY <1>2, <1>3, <1>4, Extremes
<1> QED
  BY <1>1, <1>5 DEF S, FirstOf

LEMMA DirectionsAre ==
  ASSUME NEW w \in Seq(Word)
  PROVE  /\ DirectionOf(w)[1] \in {Plus, Minus, None}
         /\ DirectionOf(w)[2] \in {"word", "number", "connective", "default"}
         /\ (\A j \in 1..Len(w) : w[j] \notin DOMAIN Valenced \cup DOMAIN Signed \cup Transparent)
              => DirectionOf(w) = <<None, "default">>
<1>1. DOMAIN w = 1..Len(w)
  BY LenProperties
<1>2. /\ \A c \in DOMAIN Valenced : Valenced[c] \in {Plus, Minus}
      /\ \A c \in DOMAIN AfterEq : AfterEq[c] \in {Plus, Minus}
      /\ \A c \in DOMAIN Signed : Signed[c] \in {Plus, Minus}
      /\ DOMAIN AfterEq \subseteq DOMAIN Signed
  BY DEF Valenced, AfterEq, Signed
<1>3. /\ Holds(w, DOMAIN Valenced) => Valenced[w[FirstOf(w, DOMAIN Valenced)]] \in {Plus, Minus}
      /\ Holds(w, DOMAIN AfterEq) => AfterEq[w[FirstOf(w, DOMAIN AfterEq)]] \in {Plus, Minus}
      /\ Holds(w, DOMAIN Signed) => Signed[w[FirstOf(w, DOMAIN Signed)]] \in {Plus, Minus}
  BY <1>2, CuesAreFound
<1>4. (\A j \in 1..Len(w) : w[j] \notin DOMAIN Valenced \cup DOMAIN Signed \cup Transparent)
        => /\ ~ Holds(w, DOMAIN Valenced) /\ ~ Holds(w, DOMAIN AfterEq)
           /\ ~ Holds(w, DOMAIN Signed) /\ ~ Holds(w, Transparent)
  BY <1>1, <1>2 DEF Holds
<1> QED
  BY <1>3, <1>4 DEF DirectionOf

\* The claims of a text, one for each mention.
LEMMA RuleClaims ==
  ASSUME NEW t \in Seq(Word)
  PROVE  /\ Len(Mentions(t)) \in Nat /\ DOMAIN RuleAssisted(t) = 1..Len(Mentions(t))
         /\ Len(RuleAssisted(t)) = Len(Mentions(t))
         /\ RuleAssisted(t) \in Seq(Extracted)
         /\ \A i \in 1..Len(Mentions(t)) :
              RuleAssisted(t)[i] =
                [feature |-> Mentions(t)[i].feature,
                 direction |-> DirectionOf(Window(t, Mentions(t), i))[1], rank |-> i,
                 magnitude |-> None, evidence |-> DirectionOf(Window(t, Mentions(t), i))[2]]
<1> DEFINE n == Len(Mentions(t))
           Said(i) == DirectionOf(Window(t, Mentions(t), i))
           Claim(i) == [feature |-> Mentions(t)[i].feature, direction |-> Said(i)[1], rank |-> i,
                        magnitude |-> None, evidence |-> Said(i)[2]]
           read == RuleAssisted(t)
<1>1. n \in Nat /\ DOMAIN Mentions(t) = 1..n /\ \A i \in 1..n : Mentions(t)[i] \in Mentioned(t)
  BY MentionsAreSorted
<1>2. read = [i \in 1..n |-> Claim(i)]
  BY <1>1 DEF RuleAssisted, MakeClaim
<1>3. ASSUME NEW i \in 1..n PROVE Claim(i) \in Extracted
  <2>1. Mentions(t)[i].feature \in Vocabulary
    BY <1>1, MentionsStand
  <2>2. Window(t, Mentions(t), i) \in Seq(Word)
    BY WindowsAre
  <2>3. /\ Said(i)[1] \in {Plus, Minus, None}
        /\ Said(i)[2] \in {"word", "number", "connective", "default"}
    BY <2>2, DirectionsAre
  <2> HIDE DEF Said, n
  <2>4. i \in Nat
    BY <1>1
  <2> HIDE DEF Vocabulary
  <2> QED
    BY <2>1, <2>3, <2>4 DEF Extracted
<1> HIDE DEF Claim, n, read
<1>4. read \in [1..n -> Extracted] /\ DOMAIN read = 1..n /\ read = [i \in 1..n |-> read[i]]
  BY <1>2, <1>3
<1>5. read \in Seq(Extracted)
  BY <1>1, <1>4, SeqDef
<1>6. Len(read) = n
  BY <1>1, <1>4, FunctionsAreLists
<1>7. \A i \in 1..n : read[i] = Claim(i)
  BY <1>2
<1> QED
  BY <1>1, <1>4, <1>5, <1>6, <1>7 DEF read, n, Claim

\* The claims of a reply.
LEMMA ModelClaims ==
  ASSUME NEW r \in Seq(Item)
  PROVE  /\ ParseJson(r) \in Seq(Extracted)
         /\ \A i \in 1..Len(ParseJson(r)) :
              \E j \in DOMAIN r : ItemAccepted(r[j]) /\ ParseJson(r)[i] = FromItem(r[j])
<1> DEFINE accepted == {i \in DOMAIN r : ItemAccepted(r[i])}
           before == {p \in accepted \X accepted : p[1] < p[2]}
           order == InOrder(accepted, before)
           n == Cardinality(accepted)
           read == ParseJson(r)
<1>1. /\ Len(r) \in Nat /\ DOMAIN r = 1..Len(r) /\ \A i \in 1..Len(r) : r[i] \in Item
  BY LenProperties
<1>2. accepted \subseteq 1..Len(r) /\ \A i \in accepted : ItemAccepted(r[i])
  BY <1>1
<1>3. \A x, y \in accepted : <<x, y>> \in before <=> x < y
  OBVIOUS
<1>4. read = [i \in DOMAIN order |-> FromItem(r[order[i]])]
  BY DEF ParseJson
<1> HIDE DEF accepted, before, read
<1>5. IsFiniteSet(accepted) /\ n \in Nat
  BY <1>1, <1>2, PlacesAreCounted
<1>6. StrictOrder(accepted, before)
  <2>1. \A x \in accepted : x \in Int
    BY <1>1, <1>2
  <2>2. \A x \in accepted : <<x, x>> \notin before
    BY <1>3, <2>1
  <2>3. \A x, y \in accepted : x = y \/ <<x, y>> \in before \/ <<y, x>> \in before
    <3> TAKE x \in accepted, y \in accepted
    <3>1. x < y \/ y < x \/ x = y
      BY <2>1
    <3> QED
      BY <1>3, <3>1
  <2>4. \A x, y, z \in accepted : <<x, y>> \in before /\ <<y, z>> \in before => <<x, z>> \in before
    BY <1>3, <2>1
  <2> QED
    BY <2>2, <2>3, <2>4 DEF StrictOrder
<1>7. order \in [1..n -> accepted]
  BY <1>5, <1>6, Sorted
<1> HIDE DEF order, n
<1>8. read = [i \in 1..n |-> FromItem(r[order[i]])]
  BY <1>4, <1>7
<1>9. ASSUME NEW j \in accepted PROVE FromItem(r[j]) \in Extracted
  <2> DEFINE item == r[j]
  <2>1. item \in Item /\ ItemAccepted(item)
    BY <1>1, <1>2
  <2> HIDE DEF item
  <2>2. item.rank \in Int \cup {None} /\ item.direction \in {Plus, Minus, "unclear"}
    BY <2>1 DEF Item, ItemAccepted
  <2>3. item.rank \in Nat \cup {None}
    <3>1. item.rank # None => item.rank >= 1
      BY <2>1 DEF ItemAccepted, ClaimAccepted, FromItem, MakeClaim
    <3> QED
      BY <2>2, <3>1
  <2>4. Canonical(item.words) \in Vocabulary
    <3> DEFINE matching == {i \in DOMAIN LongestFirst : LongestFirst[i].words = item.words}
    <3>1. Canonical(item.words) = LongestFirst[Min(matching)].canon /\ matching # {}
      BY <2>1 DEF ItemAccepted, Canonical
    <3>2. Len(Variants) \in Nat /\ matching \subseteq 1..Len(Variants)
      BY VariantsAreSorted
    <3> HIDE DEF matching
    <3>3. IsFiniteSet(matching)
      BY <3>2, PlacesAreCounted
    <3>4. matching \subseteq Int
      BY <3>2
    <3>5. Min(matching) \in matching
      BY <3>1, <3>3, <3>4, Extremes
    <3>6. LongestFirst[Min(matching)] \in Variant
      BY <3>2, <3>5, VariantsAreSorted
    <3> HIDE DEF Vocabulary
    <3> QED
      BY <3>1, <3>6 DEF Variant
  <2> HIDE DEF Vocabulary
  <2>5. FromItem(item) \in Extracted
    BY <2>2, <2>3, <2>4 DEF FromItem, MakeClaim, Extracted
  <2> QED
    BY <2>5 DEF item
<1>10. read \in [1..n -> Extracted] /\ read = [i \in 1..n |-> read[i]]
  BY <1>7, <1>8, <1>9
<1>11. read \in Seq(Extracted)
  BY <1>5, <1>10, SeqDef
<1>12. Len(read) = n
  BY <1>5, <1>10, FunctionsAreLists
<1>13. \A i \in 1..n : \E j \in DOMAIN r : ItemAccepted(r[j]) /\ read[i] = FromItem(r[j])
  <2> TAKE i \in 1..n
  <2>1. order[i] \in accepted /\ read[i] = FromItem(r[order[i]])
    BY <1>7, <1>8
  <2>2. order[i] \in DOMAIN r /\ ItemAccepted(r[order[i]])
    BY <1>1, <1>2, <2>1
  <2> QED
    BY <2>1, <2>2
<1> QED
  BY <1>11, <1>12, <1>13 DEF read

(***************************************************************************)
(* What B1 tells.                                                          *)
(***************************************************************************)
Verb(row) == IF SignOf(row.value) = Plus THEN "increases" ELSE "decreases"
SentenceOf(row) == NameOf[row.feature] \o <<Verb(row), Stop>>

\* B1 tells one sentence after the other.
TellsInTurn(a, told) ==
  /\ told[0] = <<>>
  /\ \A k \in 1..Len(Top(a)) : told[k] = told[k - 1] \o SentenceOf(Top(a)[k])
  /\ Rendered(a, NameOf) = told[Len(Top(a))]

LEMMA SentencesAreTexts ==
  ASSUME NEW row \in Row
  PROVE  /\ SentenceOf(row) \in Seq(Word) /\ NameOf[row.feature] \in Seq(Word)
         /\ Len(SentenceOf(row)) = Len(NameOf[row.feature]) + 2
         /\ \A j \in 1..Len(NameOf[row.feature]) : SentenceOf(row)[j] = NameOf[row.feature][j]
         /\ SentenceOf(row)[Len(NameOf[row.feature]) + 1] = Verb(row)
         /\ SentenceOf(row)[Len(NameOf[row.feature]) + 2] = Stop
<1> DEFINE name == NameOf[row.feature]
           rest == <<Verb(row), Stop>>
<1>1. name \in Seq(Word)
  <2>1. row.feature \in Vocabulary
    <3> HIDE DEF Vocabulary
    <3> QED
      BY DEF Row
  <2>2. NameOf[row.feature] \in Seq(STRING)
    BY <2>1, ClaimsAssumption
  <2> QED
    BY <2>2, StringsAreTexts
<1>2. rest \in Seq(Word) /\ Len(rest) = 2 /\ rest[1] = Verb(row) /\ rest[2] = Stop
  <2>1. Verb(row) \in Word /\ Stop \in Word
    BY DEF Verb, Word
  <2> HIDE DEF Verb, Stop
  <2> QED
    BY <2>1
<1>3. Len(name) \in Nat
  BY <1>1, LenProperties
<1> HIDE DEF name, rest
<1>4. /\ name \o rest \in Seq(Word) /\ Len(name \o rest) = Len(name) + Len(rest)
      /\ \A i \in 1..Len(name) + Len(rest) :
           (name \o rest)[i] = IF i <= Len(name) THEN name[i] ELSE rest[i - Len(name)]
  BY <1>1, <1>2, ConcatProperties
<1> DEFINE s == name \o rest
<1>5. s = SentenceOf(row)
  BY DEF SentenceOf, name, rest
<1> HIDE DEF s
<1>6. \A j \in 1..Len(name) : s[j] = name[j]
  BY <1>2, <1>3, <1>4 DEF s
<1>7. s[Len(name) + 1] = Verb(row) /\ s[Len(name) + 2] = Stop
  <2> DEFINE L == Len(name)
  <2>1. L + 1 \in 1..L + 2 /\ L + 2 \in 1..L + 2 /\ ~ (L + 1 <= L) /\ ~ (L + 2 <= L)
        /\ (L + 1) - L = 1 /\ (L + 2) - L = 2
    BY <1>3
  <2> QED
    BY <1>2, <1>4, <2>1 DEF s
<1> QED
  BY <1>1, <1>2, <1>4, <1>5, <1>6, <1>7 DEF name, s

LEMMA RenderedInTurn ==
  ASSUME NEW a, IsAttribution(a)
  PROVE  \E told \in [0..Len(Top(a)) -> Seq(Word)] : TellsInTurn(a, told)
<1> DEFINE n == Len(Top(a))
           empty == <<>>
           Texted == Seq(Word)
           step == [k \in 1..n |-> [x \in Texted |-> x \o SentenceOf(Top(a)[k])]]
           told == CHOOSE h : h = [k \in 0..n |-> IF k = 0 THEN empty
                                                  ELSE h[k - 1] \o SentenceOf(Top(a)[k])]
<1>1. n \in Nat /\ \A k \in 1..n : Top(a)[k] \in Row
  BY TopIsAPrefix, RankedIsSorted
<1>2. Rendered(a, NameOf) = told[n]
  BY DEF Rendered, SentenceOf, Verb
<1>3. empty \in Texted
  OBVIOUS
<1>4. step \in [1..n -> [Texted -> Texted]]
  <2>1. ASSUME NEW k \in 1..n, NEW x \in Texted
        PROVE  x \o SentenceOf(Top(a)[k]) \in Texted
    <3>1. SentenceOf(Top(a)[k]) \in Seq(Word)
      BY <1>1, SentencesAreTexts
    <3> QED
      BY <3>1, ConcatProperties
  <2> HIDE DEF n, Texted
  <2> QED
    BY <2>1
<1>5. PICK g \in [0..n -> Texted] : Solves(g, n, empty, step)
  <2> HIDE DEF step, n, empty, Texted
  <2> QED
    BY <1>1, <1>3, <1>4, Recursion
<1> HIDE DEF n, empty, Texted
<1>6. \A k \in 1..n : g[k] = g[k - 1] \o SentenceOf(Top(a)[k])
  <2> TAKE k \in 1..n
  <2>1. k - 1 \in 0..n
    BY <1>1
  <2>2. g[k - 1] \in Texted
    BY <2>1
  <2>3. step[k][g[k - 1]] = g[k - 1] \o SentenceOf(Top(a)[k])
    BY <2>2
  <2> HIDE DEF step
  <2> QED
    BY <1>5, <2>3 DEF Solves
<1>7. g[0] = empty
  BY <1>5 DEF Solves
<1>8. g = [k \in 0..n |-> IF k = 0 THEN empty ELSE g[k - 1] \o SentenceOf(Top(a)[k])]
  <2>1. \A k \in 0..n : g[k] = IF k = 0 THEN empty ELSE g[k - 1] \o SentenceOf(Top(a)[k])
    <3> TAKE k \in 0..n
    <3>1. k = 0 \/ k \in 1..n
      BY <1>1
    <3> QED
      BY <1>1, <1>6, <1>7, <3>1
  <2> QED
    BY <2>1
<1>9. told = [k \in 0..n |-> IF k = 0 THEN empty ELSE told[k - 1] \o SentenceOf(Top(a)[k])]
  BY <1>8
<1> HIDE DEF told
<1>10. told[0] = empty /\ \A k \in 1..n : told[k] = told[k - 1] \o SentenceOf(Top(a)[k])
  BY <1>1, <1>9
<1>11. told \in [0..n -> Texted]
  <2> DEFINE typed == {k \in Nat : k <= n => told[k] \in Texted}
  <2>1. 0 \in typed
    BY <1>3, <1>10
  <2>2. ASSUME NEW k \in Nat, k \in typed PROVE k + 1 \in typed
    <3> SUFFICES ASSUME k + 1 <= n PROVE told[k + 1] \in Texted
      OBVIOUS
    <3>1. k + 1 \in 1..n /\ (k + 1) - 1 = k /\ told[k] \in Texted
      BY <1>1, <2>2
    <3>2. SentenceOf(Top(a)[k + 1]) \in Texted
      BY <1>1, <3>1, SentencesAreTexts DEF Texted
    <3>3. told[k + 1] = told[k] \o SentenceOf(Top(a)[k + 1])
      BY <1>10, <3>1
    <3> QED
      BY <3>1, <3>2, <3>3, ConcatProperties DEF Texted
  <2> HIDE DEF typed
  <2>3. Nat \subseteq typed
    BY <2>1, <2>2, Reached
  <2>4. \A k \in 0..n : told[k] \in Texted
    BY <1>1, <2>3 DEF typed
  <2> QED
    BY <1>9, <2>4
<1> QED
  BY <1>2, <1>10, <1>11 DEF n, Texted, empty, TellsInTurn

(***************************************************************************)
(* One explanation and what is read of it.                                 *)
(***************************************************************************)
\* The claims are what the extractor makes of the text told, and of its own
\* model's reply to that text.
ClaimsInductive ==
  /\ attribution \in Attributions
  /\ narrator \in {None, "b1", "llm"}
  /\ narrator = None => text = None
  /\ narrator = "b1" => text = Rendered(attribution, NameOf)
  /\ narrator = "llm" => text \in Texts
  /\ narrator = None => claims = None
  /\ claims = None => reply = None
  /\ claims # None => reply \in {None} \cup RepliesTo(text) /\ claims = Extract(text, reply)

LEMMA TextsAreSequences ==
  ASSUME ClaimsInductive, narrator # None
  PROVE  /\ text \in Seq(Word)
         /\ RepliesTo(text) \subseteq {Unparsed} \cup Seq(Item)
<1>1. CASE narrator = "b1"
  <2>1. IsAttribution(attribution) /\ text = Rendered(attribution, NameOf)
    BY <1>1, ClaimsAssumption DEF ClaimsInductive
  <2>2. PICK told \in [0..Len(Top(attribution)) -> Seq(Word)] : TellsInTurn(attribution, told)
    BY <2>1, RenderedInTurn
  <2>3. Len(Top(attribution)) \in 0..Len(Top(attribution))
    BY <2>1, TopIsAPrefix, LenProperties
  <2>4. text \in Seq(Word)
    BY <2>1, <2>2, <2>3 DEF TellsInTurn
  <2> QED
    BY <2>1, <2>4, ClaimsAssumption DEF ClaimsInductive
<1>2. CASE narrator = "llm"
  BY <1>2, ClaimsAssumption, StringsAreTexts DEF ClaimsInductive
<1> QED
  BY <1>1, <1>2 DEF ClaimsInductive

LEMMA ExtractsClaims ==
  ASSUME NEW t \in Seq(Word), NEW r \in {None, Unparsed} \cup Seq(Item)
  PROVE  Extract(t, r) \in Seq(Extracted) /\ Extract(t, r) # None
<1>1. Extract(t, r) \in Seq(Extracted)
  <2>1. CASE r \in {None, Unparsed}
    BY <2>1, RuleClaims DEF Extract
  <2>2. CASE r \notin {None, Unparsed}
    BY <2>2, ModelClaims DEF Extract
  <2> QED
    BY <2>1, <2>2
<1> QED
  BY <1>1, NoneAssumption

LEMMA ClaimsInductiveInit == ClaimsInit => ClaimsInductive
BY ClaimsAssumption DEF ClaimsInit, ClaimsInductive

LEMMA ClaimsInductiveStep == ClaimsInductive /\ [ClaimsNext]_claimsVars => ClaimsInductive'
<1> SUFFICES ASSUME ClaimsInductive, [ClaimsNext]_claimsVars PROVE ClaimsInductive'
  OBVIOUS
<1>0. "b1" # None /\ "llm" # None
  BY ClaimsAssumption
<1>1. CASE TellTemplate
  BY <1>0, <1>1 DEF TellTemplate, ClaimsInductive
<1>2. CASE TellFreely
  BY <1>0, <1>2 DEF TellFreely, ClaimsInductive
<1>3. CASE ExtractByRule
  BY <1>3 DEF ExtractByRule, ClaimsInductive
<1>4. CASE ExtractByModel
  <2>1. PICK r \in RepliesTo(text) : reply' = r /\ claims' = Extract(text, r)
    BY <1>4 DEF ExtractByModel
  <2>2. narrator # None
    BY <1>4 DEF ExtractByModel, ClaimsInductive
  <2>3. claims' # None
    <3>1. text \in Seq(Word) /\ r \in {None, Unparsed} \cup Seq(Item)
      BY <2>1, <2>2, TextsAreSequences
    <3> QED
      BY <2>1, <3>1, ExtractsClaims
  <2> QED
    BY <1>4, <2>1, <2>2, <2>3 DEF ExtractByModel, ClaimsInductive
<1>5. CASE UNCHANGED claimsVars
  BY <1>5 DEF claimsVars, ClaimsInductive
<1> QED
  BY <1>1, <1>2, <1>3, <1>4, <1>5 DEF ClaimsNext

\* Whatever is told and replied, the claims are those of the text, or those of
\* the reply when it parses.
THEOREM ClaimsInvariance == ClaimsSpec => []ClaimsInductive
<1>1. ClaimsInit => ClaimsInductive
  BY ClaimsInductiveInit
<1>2. ClaimsInductive /\ [ClaimsNext]_claimsVars => ClaimsInductive'
  BY ClaimsInductiveStep
<1> QED
  BY <1>1, <1>2, PTL DEF ClaimsSpec

\* The claims read are well-formed, whatever was told and replied.
LEMMA ReadClaims ==
  ASSUME ClaimsInductive, Read
  PROVE  /\ text \in Seq(Word) /\ IsAttribution(attribution) /\ narrator # None
         /\ reply \in {None, Unparsed} \cup Seq(Item)
         /\ claims = Extract(text, reply) /\ claims \in Seq(Extracted)
         /\ LastLlmParsed(reply) = TRUE <=> reply \notin {None, Unparsed}
<1>1. narrator # None /\ claims = Extract(text, reply) /\ reply \in {None} \cup RepliesTo(text)
  BY DEF Read, ClaimsInductive
<1>2. text \in Seq(Word) /\ reply \in {None, Unparsed} \cup Seq(Item)
  BY <1>1, TextsAreSequences
<1>3. IsAttribution(attribution)
  BY ClaimsAssumption DEF ClaimsInductive
<1>4. LastLlmParsed(reply) = TRUE <=> reply \notin {None, Unparsed}
  BY NoneAssumption DEF LastLlmParsed
<1> QED
  BY <1>1, <1>2, <1>3, <1>4, ExtractsClaims

\* A text, or a parsed reply, that gives no direction is neither credited nor
\* charged with one, whatever it says.
THEOREM SilenceStaysUnscored == ClaimsSpec => []SilenceIsNotScored
<1>1. ASSUME ClaimsInductive, Read, Silent
      PROVE  /\ DirectionAssertionRate(claims, attribution).num = 0
             /\ Dsa(claims, attribution).num = 0
             /\ DsaAsserted(claims, attribution).den = 0
  <2>1. /\ text \in Seq(Word) /\ reply \in {None, Unparsed} \cup Seq(Item)
        /\ claims = Extract(text, reply)
        /\ LastLlmParsed(reply) = TRUE <=> reply \notin {None, Unparsed}
    BY <1>1, ReadClaims
  <2>2. \A i \in DOMAIN claims : claims[i].evidence = "default" /\ claims[i].direction = None
    <3>1. CASE reply \in {None, Unparsed}
      <4>1. claims = RuleAssisted(text)
        BY <2>1, <3>1 DEF Extract
      <4>2. \A q \in 1..Len(text) : text[q] \notin DOMAIN Valenced \cup DOMAIN Signed \cup Transparent
        BY <1>1, <2>1, <3>1, LenProperties DEF Silent
      <4>3. ASSUME NEW i \in 1..Len(Mentions(text))
            PROVE  claims[i].evidence = "default" /\ claims[i].direction = None
        <5> DEFINE window == Window(text, Mentions(text), i)
        <5>1. /\ window \in Seq(Word)
              /\ \A j \in 1..Len(window) : /\ Mentions(text)[i].end + j \in 1..Len(text)
                                           /\ window[j] = text[Mentions(text)[i].end + j]
          BY <2>1, WindowsAre
        <5>2. \A j \in 1..Len(window) : window[j] \notin DOMAIN Valenced \cup DOMAIN Signed \cup Transparent
          BY <4>2, <5>1
        <5> HIDE DEF window
        <5>3. DirectionOf(window) = <<None, "default">>
          BY <5>1, <5>2, DirectionsAre
        <5>4. claims[i] = [feature |-> Mentions(text)[i].feature,
                           direction |-> DirectionOf(window)[1], rank |-> i,
                           magnitude |-> None, evidence |-> DirectionOf(window)[2]]
          BY <2>1, <4>1, RuleClaims DEF window
        <5> QED
          BY <5>3, <5>4
      <4> QED
        BY <2>1, <4>1, <4>3, RuleClaims
    <3>2. CASE reply \notin {None, Unparsed}
      <4>1. claims = ParseJson(reply) /\ reply \in Seq(Item)
        BY <2>1, <3>2 DEF Extract
      <4>2. \A i \in DOMAIN reply : reply[i].direction \notin {Plus, Minus}
        BY <1>1, <2>1, <3>2 DEF Silent
      <4>3. DOMAIN claims = 1..Len(ParseJson(reply))
        BY <4>1, ModelClaims, LenProperties
      <4>4. ASSUME NEW i \in 1..Len(ParseJson(reply))
            PROVE  claims[i].evidence = "default" /\ claims[i].direction = None
        <5>1. PICK j \in DOMAIN reply : ItemAccepted(reply[j]) /\ claims[i] = FromItem(reply[j])
          BY <4>1, ModelClaims
        <5>2. reply[j].direction = "unclear"
          BY <4>2, <5>1 DEF ItemAccepted
        <5> QED
          BY <5>1, <5>2 DEF FromItem, MakeClaim
      <4> QED
        BY <4>3, <4>4
    <3> QED
      BY <3>1, <3>2
  <2>3. Asserted(claims, attribution) = {}
    BY <2>2 DEF Asserted, Present
  <2>4. {i \in Present(claims, attribution) : Agrees(claims[i], attribution)} = {}
    <3>1. None # Plus /\ None # Minus
      BY NoneAssumption
    <3>2. \A v : SignOf(v) # None
      BY <3>1 DEF SignOf
    <3> QED
      BY <2>2, <3>2 DEF Agrees, Present
  <2>5. Cardinality({}) = 0
    BY FS_EmptySet
  <2> QED
    BY <2>3, <2>4, <2>5 DEF DirectionAssertionRate, Dsa, DsaAsserted, AgreeingOf, Fraction
<1>2. ClaimsInductive => SilenceIsNotScored
  BY <1>1 DEF SilenceIsNotScored
<1> QED
  BY <1>2, ClaimsInvariance, PTL

(***************************************************************************)
(* The sentences before one read alone.                                    *)
(***************************************************************************)
LEMMA EqualSequences ==
  ASSUME NEW S, NEW s1 \in Seq(S), NEW s2 \in Seq(S), Len(s1) = Len(s2),
         \A j \in 1..Len(s1) : s1[j] = s2[j]
  PROVE  s1 = s2
<1> DEFINE D == 1..Len(s1)
<1>1. s1 = [j \in D |-> s1[j]] /\ s2 = [j \in D |-> s2[j]]
  BY LenProperties
<1>2. \A j \in D : s1[j] = s2[j]
  OBVIOUS
<1> HIDE DEF D
<1> QED
  BY <1>1, <1>2

\* The text up to a sentence's end.
Cut(t, p) == SubSeq(t, 1, p)
EndsSentence(t, p) == p \in 1..Len(t) /\ t[p] = Stop

LEMMA CutsAreTexts ==
  ASSUME NEW t \in Seq(Word), NEW p, EndsSentence(t, p)
  PROVE  /\ Cut(t, p) \in Seq(Word) /\ Len(Cut(t, p)) = p /\ p \in Nat /\ 1 <= p /\ p <= Len(t)
         /\ \A q \in 1..p : Cut(t, p)[q] = t[q]
         /\ EndsSentence(Cut(t, p), p)
<1>1. p \in Nat /\ 1 <= p /\ p <= Len(t) /\ t[p] = Stop /\ Len(t) \in Nat
  BY LenProperties DEF EndsSentence
<1>2. \A q \in 1..p : t[q] \in Word
  <2>1. \A q \in 1..Len(t) : t[q] \in Word
    BY LenProperties
  <2> QED
    BY <1>1, <2>1
<1> DEFINE s == Cut(t, p)
<1>3. /\ s \in Seq(Word) /\ Len(s) = IF 1 <= p THEN p - 1 + 1 ELSE 0
      /\ \A q \in 1..(p - 1 + 1) : s[q] = t[1 + q - 1]
  BY <1>1, <1>2, SubSeqProperties DEF Cut
<1> HIDE DEF s
<1>4. Len(s) = p /\ \A q \in 1..p : s[q] = t[q]
  BY <1>1, <1>3
<1>5. EndsSentence(s, p)
  BY <1>1, <1>4 DEF EndsSentence
<1> QED
  BY <1>1, <1>3, <1>4, <1>5 DEF s

\* A name with no sentence's end in it stands before the end or after it.
LEMMA CutOccurrences ==
  ASSUME NEW t \in Seq(Word), NEW p, EndsSentence(t, p), NEW words \in Seq(Word),
         Len(words) \in Nat \ {0}, \A j \in 1..Len(words) : words[j] # Stop
  PROVE  /\ \A q \in Occurrences(t, words) :
              q \in Nat /\ 1 <= q /\ (q <= p => q + Len(words) - 1 <= p)
         /\ \A q : q \in Occurrences(Cut(t, p), words) <=> q \in Occurrences(t, words) /\ q <= p
<1> DEFINE L == Len(words)
           s == Cut(t, p)
<1>1. /\ s \in Seq(Word) /\ Len(s) = p /\ p \in Nat /\ p <= Len(t) /\ Len(t) \in Nat
      /\ (\A q \in 1..p : s[q] = t[q]) /\ t[p] = Stop /\ L \in Nat /\ 1 <= L
  BY CutsAreTexts, LenProperties DEF EndsSentence
<1>2. \A q : q \in Occurrences(t, words) <=>
        q \in 1..(Len(t) - L + 1) /\ \A j \in 1..L : t[q + j - 1] = words[j]
  BY OccurrencesAre
<1> HIDE DEF s
<1>3. \A q : q \in Occurrences(s, words) <=>
        q \in 1..(p - L + 1) /\ \A j \in 1..L : s[q + j - 1] = words[j]
  <2>1. Occurrences(s, words)
          = {q \in 1..(Len(s) - L + 1) : \A j \in 1..L : s[q + j - 1] = words[j]}
    BY <1>1, OccurrencesAre
  <2> HIDE DEF L
  <2> QED
    BY <1>1, <2>1
<1> HIDE DEF L
<1>4. ASSUME NEW q \in Occurrences(t, words)
      PROVE  q \in Nat /\ 1 <= q /\ (q <= p => q + L - 1 <= p)
  <2>1. q \in Nat /\ 1 <= q
    BY <1>1, <1>2
  <2>2. ASSUME q <= p, ~ (q + L - 1 <= p) PROVE FALSE
    <3> DEFINE j == p - q + 1
    <3>1. j \in 1..L /\ q + j - 1 = p
      BY <1>1, <2>1, <2>2
    <3> HIDE DEF j
    <3>2. t[p] = words[j]
      BY <1>2, <3>1
    <3> QED
      BY <1>1, <3>1, <3>2 DEF L
  <2> QED
    BY <2>1, <2>2
<1>5. ASSUME NEW q \in Occurrences(s, words) PROVE q \in Occurrences(t, words) /\ q <= p
  <2>1. q \in Nat /\ 1 <= q /\ q <= p - L + 1 /\ \A j \in 1..L : s[q + j - 1] = words[j]
    BY <1>1, <1>3
  <2>2. q \in 1..(Len(t) - L + 1) /\ q <= p
    BY <1>1, <2>1
  <2>3. \A j \in 1..L : q + j - 1 \in 1..p
    BY <1>1, <2>1
  <2>4. \A j \in 1..L : t[q + j - 1] = words[j]
    BY <1>1, <2>1, <2>3
  <2> QED
    BY <1>2, <2>2, <2>4
<1>6. ASSUME NEW q \in Occurrences(t, words), q <= p PROVE q \in Occurrences(s, words)
  <2>1. q \in Nat /\ 1 <= q /\ q + L - 1 <= p
    BY <1>4, <1>6
  <2>2. \A j \in 1..L : q + j - 1 \in 1..p
    BY <1>1, <2>1
  <2>3. \A j \in 1..L : s[q + j - 1] = words[j]
    BY <1>1, <1>2, <2>2
  <2>4. q \in 1..(p - L + 1)
    BY <1>1, <2>1
  <2> QED
    BY <1>3, <2>3, <2>4
<1> QED
  BY <1>4, <1>5, <1>6 DEF s, L

\* What is found in the cut text is what is found before the cut in the whole.
SameUpTo(p, f, g) ==
  /\ f.consumed = g.consumed \cap 1..p
  /\ f.mentions = {m \in g.mentions : m.start <= p}

LEMMA VariantsAreNames ==
  ASSUME NEW k \in 1..Len(Variants)
  PROVE  /\ LongestFirst[k] \in Variant /\ LongestFirst[k].words \in Seq(Word)
         /\ Len(LongestFirst[k].words) \in Nat \ {0}
         /\ \A j \in 1..Len(LongestFirst[k].words) : LongestFirst[k].words[j] # Stop
<1> DEFINE words == LongestFirst[k].words
<1>1. /\ LongestFirst[k] \in Variant /\ words \in Seq(Word) /\ Len(words) \in Nat \ {0}
  BY VariantsAreSorted DEF Variant
<1>2. PICK i \in 1..Len(Variants) : LongestFirst[k] = Variants[i]
  BY VariantsAreSorted
<1>3. i \in DOMAIN Variants
  BY <1>2, VariantsAreTyped, LenProperties
<1>4. Stop \notin Range(words)
  BY <1>2, <1>3, NamesAssumption
<1>5. DOMAIN words = 1..Len(words)
  BY <1>1, LenProperties
<1> HIDE DEF words
<1>6. \A j \in 1..Len(words) : words[j] # Stop
  BY <1>4, <1>5 DEF Range
<1> QED
  BY <1>1, <1>6 DEF words

LEMMA CutConsumes ==
  ASSUME NEW t \in Seq(Word), NEW p, EndsSentence(t, p), NEW k \in 1..Len(Variants),
         NEW f, NEW g, SameUpTo(p, f, g), Placed(t, g)
  PROVE  SameUpTo(p, Consume(Cut(t, p), f, LongestFirst[k]), Consume(t, g, LongestFirst[k]))
<1> DEFINE v == LongestFirst[k]
           L == Len(v.words)
           s == Cut(t, p)
           within == Free(s, f.consumed, v.words)
           free == Free(t, g.consumed, v.words)
           x == Min(free)
           knownIn == {m \in f.mentions : m.feature = v.canon}
           known == {m \in g.mentions : m.feature = v.canon}
           f1 == Consume(s, f, v)
           g1 == Consume(t, g, v)
<1>1. /\ v \in Variant /\ v.words \in Seq(Word) /\ L \in Nat \ {0}
      /\ \A j \in 1..L : v.words[j] # Stop
  BY VariantsAreNames
<1>2. s \in Seq(Word) /\ p \in Nat /\ 1 <= p /\ p <= Len(t)
  BY CutsAreTexts
<1>3. \A q \in free : q \in Nat /\ 1 <= q /\ (q <= p => q + L - 1 <= p)
  BY <1>1, CutOccurrences DEF Free
<1>4. \A q : q \in within <=> q \in free /\ q <= p
  <2> TAKE q
  <2>1. q \in Occurrences(s, v.words) <=> q \in Occurrences(t, v.words) /\ q <= p
    BY <1>1, CutOccurrences
  <2>2. ASSUME q \in Occurrences(t, v.words), q <= p
        PROVE  Span(q, v.words) \cap f.consumed = {} <=> Span(q, v.words) \cap g.consumed = {}
    <3> DEFINE words == v.words
    <3>0. /\ words \in Seq(Word) /\ Len(words) \in Nat \ {0} /\ q \in Occurrences(t, words)
          /\ \A j \in 1..Len(words) : words[j] # Stop
      BY <1>1, <2>2
    <3> HIDE DEF words
    <3>1. q \in Nat /\ 1 <= q /\ q + Len(words) - 1 <= p
      BY <2>2, <3>0, CutOccurrences
    <3>2. Span(q, words) = q..(q + Len(words) - 1)
      BY <3>0, <3>1, SpansAreIntervals
    <3>3. Span(q, v.words) \subseteq 1..p
      BY <1>2, <3>0, <3>1, <3>2 DEF words
    <3>4. f.consumed = g.consumed \cap 1..p
      BY DEF SameUpTo
    <3> QED
      BY <3>3, <3>4
  <2> QED
    BY <2>1, <2>2 DEF Free
<1>5. f.consumed = g.consumed \cap 1..p /\ f.mentions = {m \in g.mentions : m.start <= p}
  BY DEF SameUpTo
<1>6. \A m \in g.mentions : m.start \in Int
  <2>1. g.mentions \subseteq Mention
    BY DEF Placed, AnyFound
  <2> QED
    BY <2>1 DEF Mention
<1>7. CASE free = {}
  <2>1. within = {}
    <3> HIDE DEF within, free
    <3> QED
      BY <1>4, <1>7
  <2>2. f1 = f /\ g1 = g
    BY <1>1, <1>2, <1>7, <2>1, Consumes
  <2> QED
    BY <2>2
<1>8. CASE free # {}
  <2>1. /\ x \in free /\ \A q \in free : x <= q
        /\ g1 = [consumed |-> g.consumed \cup x..(x + L - 1),
                 mentions |-> IF \E m \in known : m.start < x THEN g.mentions
                              ELSE (g.mentions \ known) \cup {Told(v, x)}]
    BY <1>1, <1>8, Consumes
  <2>2. x \in Nat /\ 1 <= x /\ (x <= p => x + L - 1 <= p)
    BY <1>3, <2>1
  <2>3. \A n : n = x => Told(v, n).start = x /\ Told(v, n) = Told(v, x)
    BY DEF Told
  <2> DEFINE new == Told(v, x)
  <2>4. new.start = x
    BY <2>3
  <2> HIDE DEF free, x, L
  <2>5. CASE x > p
    <3>1. within = {}
      <4> HIDE DEF within
      <4>1. \A q \in within : q \in free /\ q <= p /\ x <= q /\ q \in Nat
        BY <1>3, <1>4, <2>1
      <4>2. \A q \in within : FALSE
        BY <1>2, <2>2, <2>5, <4>1
      <4> QED
        BY <4>2
    <3>2. f1 = f
      BY <1>1, <1>2, <3>1, Consumes DEF L
    <3>3. (g.consumed \cup x..(x + L - 1)) \cap 1..p = g.consumed \cap 1..p
      BY <1>1, <1>2, <2>2, <2>5
    <3>4. \A m \in g1.mentions : m.start <= p => m \in g.mentions
      <4> HIDE DEF new
      <4>1. ~ (new.start <= p)
        BY <1>2, <2>2, <2>4, <2>5
      <4>2. \A m \in g1.mentions : m \in g.mentions \/ m = new
        BY <2>1 DEF new
      <4> QED
        BY <4>1, <4>2
    <3>5. \A m \in g.mentions : m.start <= p => m \in g1.mentions
      <4> SUFFICES ASSUME NEW m \in g.mentions, m.start <= p PROVE m \in g1.mentions
        OBVIOUS
      <4>1. m \in known => m.start < x
        BY <1>2, <1>6, <2>2, <2>5
      <4> HIDE DEF known, new
      <4> QED
        BY <2>1, <4>1
    <3>6. g1.consumed = g.consumed \cup x..(x + L - 1)
      BY <2>1
    <3> HIDE DEF f1, g1
    <3>7. {m \in g.mentions : m.start <= p} = {m \in g1.mentions : m.start <= p}
      BY <3>4, <3>5
    <3>8. SameUpTo(p, f1, g1)
      BY <1>5, <3>2, <3>3, <3>6, <3>7 DEF SameUpTo
    <3> QED
      BY <3>8 DEF f1, g1, s, v
  <2>6. CASE x <= p
    <3> DEFINE y == Min(within)
    <3>1. x \in within /\ within # {}
      BY <1>4, <2>1, <2>6
    <3>2. /\ y \in within /\ \A q \in within : y <= q
          /\ f1 = [consumed |-> f.consumed \cup y..(y + L - 1),
                   mentions |-> IF \E m \in knownIn : m.start < y THEN f.mentions
                                ELSE (f.mentions \ knownIn) \cup {Told(v, y)}]
      BY <1>1, <1>2, <3>1, Consumes DEF L
    <3> HIDE DEF y, within
    <3>3. y = x
      <4>1. y \in free /\ y <= x /\ x <= y /\ y \in Nat
        BY <1>3, <1>4, <2>1, <3>1, <3>2
      <4> QED
        BY <2>2, <4>1
    <3>4. f1 = [consumed |-> f.consumed \cup x..(x + L - 1),
                mentions |-> IF \E m \in knownIn : m.start < x THEN f.mentions
                             ELSE (f.mentions \ knownIn) \cup {new}]
      BY <3>2, <3>3
    <3>5. x..(x + L - 1) \subseteq 1..p
      BY <1>1, <1>2, <2>2, <2>6
    <3>6. f1.consumed = g1.consumed \cap 1..p
      <4> DEFINE span == x..(x + L - 1)  low == 1..p
      <4>1. f1.consumed = f.consumed \cup span /\ g1.consumed = g.consumed \cup span
            /\ span \subseteq low /\ f.consumed = g.consumed \cap low
        BY <1>5, <2>1, <3>4, <3>5
      <4> HIDE DEF span, low, f1, g1
      <4>2. f1.consumed = g1.consumed \cap low
        BY <4>1
      <4> QED
        BY <4>2 DEF low
    <3>7. \A m : m \in knownIn <=> m \in known /\ m.start <= p
      BY <1>5
    <3>8. (\E m \in knownIn : m.start < x) <=> (\E m \in known : m.start < x)
      <4>1. \A m \in known : m.start \in Int
        BY <1>6
      <4> HIDE DEF known, knownIn
      <4>2. \A m \in known : m.start < x => m.start <= p
        BY <1>2, <2>2, <2>6, <4>1
      <4> QED
        BY <3>7, <4>2
    <3>9. new.start <= p
      BY <2>4, <2>6
    <3> HIDE DEF known, knownIn, new
    <3>10. f1.mentions = {m \in g1.mentions : m.start <= p}
      <4>1. CASE \E m \in known : m.start < x
        <5>1. f1.mentions = f.mentions /\ g1.mentions = g.mentions
          BY <2>1, <3>4, <3>8, <4>1 DEF new
        <5> QED
          BY <1>5, <5>1
      <4>2. CASE ~ \E m \in known : m.start < x
        <5>1. /\ f1.mentions = (f.mentions \ knownIn) \cup {new}
              /\ g1.mentions = (g.mentions \ known) \cup {new}
          BY <2>1, <3>4, <3>8, <4>2 DEF new
        <5> HIDE DEF f1, g1
        <5>2. \A m : m \in f1.mentions <=> m \in g1.mentions /\ m.start <= p
          BY <1>5, <3>7, <3>9, <5>1
        <5> QED
          BY <5>2
      <4> QED
        BY <4>1, <4>2
    <3> HIDE DEF f1, g1
    <3>11. SameUpTo(p, f1, g1)
      BY <3>6, <3>10 DEF SameUpTo
    <3> QED
      BY <3>11 DEF f1, g1, s, v
  <2> QED
    BY <1>2, <2>2, <2>5, <2>6
<1> QED
  BY <1>7, <1>8

LEMMA CutFinds ==
  ASSUME NEW t \in Seq(Word), NEW p, EndsSentence(t, p)
  PROVE  \A m : m \in Mentioned(Cut(t, p)) <=> m \in Mentioned(t) /\ m.start <= p
<1> DEFINE n == Len(Variants)
           s == Cut(t, p)
           same == {j \in Nat : j <= n => SameUpTo(p, Found(s, j), Found(t, j))}
<1>1. n \in Nat /\ s \in Seq(Word)
  BY VariantsAreSorted, CutsAreTexts
<1>2. 0 \in same
  <2> DEFINE none == [consumed |-> {}, mentions |-> {}]
  <2>1. Found(s, 0) = none /\ Found(t, 0) = none
    BY <1>1, FoundInTurn
  <2>2. SameUpTo(p, none, none)
    BY DEF SameUpTo
  <2> HIDE DEF none
  <2> QED
    BY <2>1, <2>2
<1>3. ASSUME NEW j \in Nat, j \in same PROVE j + 1 \in same
  <2> SUFFICES ASSUME j + 1 <= n PROVE SameUpTo(p, Found(s, j + 1), Found(t, j + 1))
    OBVIOUS
  <2> DEFINE k == j + 1
  <2>1. j \in 0..n /\ k \in 1..n /\ k - 1 = j /\ SameUpTo(p, Found(s, j), Found(t, j))
    BY <1>1, <1>3
  <2> HIDE DEF k, s
  <2>2. /\ Found(s, k) = Consume(s, Found(s, j), LongestFirst[k])
        /\ Found(t, k) = Consume(t, Found(t, j), LongestFirst[k])
    BY <1>1, <2>1, FoundInTurn
  <2>3. Placed(t, Found(t, j))
    BY <2>1, FoundIsPlaced
  <2>4. SameUpTo(p, Found(s, k), Found(t, k))
    BY <2>1, <2>2, <2>3, CutConsumes DEF s
  <2> QED
    BY <2>4 DEF k
<1> HIDE DEF same
<1>4. n \in same
  BY <1>1, <1>2, <1>3, Reached
<1>5. SameUpTo(p, Found(s, n), Found(t, n))
  BY <1>1, <1>4 DEF same
<1> QED
  BY <1>5 DEF SameUpTo, Mentioned

LEMMA CutMentions ==
  ASSUME NEW t \in Seq(Word), NEW p, EndsSentence(t, p)
  PROVE  LET n == Len(Mentions(Cut(t, p)))
         IN /\ n \in Nat /\ n <= Len(Mentions(t))
            /\ \A r \in 1..n : Mentions(Cut(t, p))[r] = Mentions(t)[r]
            /\ \A r \in 1..n : Mentions(t)[r].start <= p
            /\ \A r \in 1..Len(Mentions(t)) : r > n => Mentions(t)[r].start > p
<1> DEFINE s == Cut(t, p)
           S == Mentioned(t)
           C == Mentioned(s)
           n == Len(Mentions(s))
           before == StartsBefore(S)
           beforeIn == StartsBefore(C)
           M == Mentions(t)
           K == Mentions(s)
<1>1. s \in Seq(Word) /\ p \in Nat
  BY CutsAreTexts
<1>2. \A m : m \in C <=> m \in S /\ m.start <= p
  BY CutFinds
<1>3. IsFiniteSet(S) /\ IsFiniteSet(C) /\ \A m \in S : m.start \in Nat
  BY <1>1, MentionsStand
<1>4. /\ Len(M) = Cardinality(S) /\ n = Cardinality(C)
      /\ StrictOrder(S, before) /\ StrictOrder(C, beforeIn)
      /\ M = InOrder(S, before) /\ K = InOrder(C, beforeIn)
  BY <1>1, MentionsAreSorted
<1> HIDE DEF S, C, M, K, n, s
<1>5. /\ Cardinality(S) \in Nat /\ M \in [1..Cardinality(S) -> S]
      /\ \A x \in S : M[Earlier(S, before, x) + 1] = x
      /\ \A r \in 1..Cardinality(S) : Earlier(S, before, M[r]) = r - 1
  BY <1>3, <1>4, Sorted
<1>6. /\ Cardinality(C) \in Nat /\ K \in [1..Cardinality(C) -> C]
      /\ \A x \in C : Earlier(C, beforeIn, x) + 1 \in 1..Cardinality(C)
      /\ \A r \in 1..Cardinality(C) : Earlier(C, beforeIn, K[r]) = r - 1
  BY <1>3, <1>4, Sorted
<1>7. ASSUME NEW x \in C PROVE x \in S /\ Earlier(C, beforeIn, x) = Earlier(S, before, x)
  <2>1. \A y : y \in C /\ <<y, x>> \in beforeIn <=> y \in S /\ <<y, x>> \in before
    <3> TAKE y
    <3>1. x \in S /\ x.start <= p /\ x.start \in Nat
      BY <1>2, <1>3
    <3>2. y \in S /\ y.start < x.start => y.start <= p
      BY <1>1, <1>3, <3>1
    <3>3. y \in C /\ <<y, x>> \in beforeIn <=> y \in C /\ y.start < x.start
      BY DEF StartsBefore
    <3>4. y \in S /\ <<y, x>> \in before <=> y \in S /\ y.start < x.start
      BY <3>1 DEF StartsBefore
    <3> QED
      BY <1>2, <3>2, <3>3, <3>4
  <2> HIDE DEF before, beforeIn
  <2>2. {y \in C : <<y, x>> \in beforeIn} = {y \in S : <<y, x>> \in before}
    BY <2>1
  <2> QED
    BY <1>2, <2>2 DEF Earlier
<1> HIDE DEF before, beforeIn
<1>8. C \in SUBSET S
  BY <1>2
<1>9. n \in Nat /\ n <= Len(M)
  BY <1>3, <1>4, <1>5, <1>6, <1>8, FS_Subset
<1>10. ASSUME NEW r \in 1..n PROVE K[r] = M[r] /\ M[r].start <= p
  <2>1. K[r] \in C /\ Earlier(C, beforeIn, K[r]) = r - 1
    BY <1>4, <1>6
  <2>2. K[r] \in S /\ Earlier(S, before, K[r]) = r - 1
    BY <1>7, <2>1
  <2>3. M[(r - 1) + 1] = K[r] /\ (r - 1) + 1 = r
    BY <1>5, <1>9, <2>2
  <2> QED
    BY <1>2, <2>1, <2>3
<1>11. ASSUME NEW r \in 1..Len(M), r > n PROVE M[r].start > p
  <2>1. M[r] \in S /\ Earlier(S, before, M[r]) = r - 1
    BY <1>4, <1>5
  <2>2. M[r] \notin C
    <3> SUFFICES ASSUME M[r] \in C PROVE FALSE
      OBVIOUS
    <3>1. Earlier(C, beforeIn, M[r]) = r - 1
      BY <1>7, <2>1
    <3>2. (r - 1) + 1 \in 1..n
      BY <1>4, <1>6, <3>1
    <3> QED
      BY <1>5, <1>9, <1>11, <3>2
  <2>3. M[r].start \in Nat /\ ~ (M[r].start <= p)
    BY <1>2, <1>3, <2>1, <2>2
  <2> QED
    BY <1>1, <2>3
<1> QED
  BY <1>9, <1>10, <1>11 DEF n, K, M, s

LEMMA CutWindows ==
  ASSUME NEW t \in Seq(Word), NEW p, EndsSentence(t, p), NEW r \in 1..Len(Mentions(Cut(t, p)))
  PROVE  Window(Cut(t, p), Mentions(Cut(t, p)), r) = Window(t, Mentions(t), r)
<1> DEFINE s == Cut(t, p)
           n == Len(Mentions(s))
           N == Len(Mentions(t))
           e == Mentions(t)[r].end
           uIn == Until(s, r)
           u == Until(t, r)
<1>1. /\ s \in Seq(Word) /\ Len(s) = p /\ p \in Nat /\ p <= Len(t) /\ Len(t) \in Nat
      /\ (\A q \in 1..p : s[q] = t[q]) /\ t[p] = Stop /\ s[p] = Stop
  BY CutsAreTexts, LenProperties DEF EndsSentence
<1>2. /\ n \in Nat /\ n <= N /\ N \in Nat /\ r \in 1..N
      /\ \A i \in 1..n : Mentions(s)[i] = Mentions(t)[i] /\ Mentions(t)[i].start <= p
      /\ \A i \in 1..N : i > n => Mentions(t)[i].start > p
  <2>1. N \in Nat
    BY MentionsAreSorted
  <2> QED
    BY <2>1, CutMentions
<1> HIDE DEF s, n, N
<1>3. Mentions(t)[r] \in Mentioned(t) /\ \A i \in 1..N : Mentions(t)[i].start \in Nat
  BY <1>2, MentionsAreSorted, MentionsStand DEF N
<1>4. e \in Nat /\ e + 1 <= p /\ Mentions(s)[r].end = e
  <2> DEFINE m == Mentions(t)[r]
  <2>1. /\ m.start \in Nat /\ m.end \in Nat /\ m.start <= m.end
        /\ \A q \in m.start..m.end : t[q] # Stop
    BY <1>3, MentionsStand
  <2>2. m.start <= p /\ Mentions(s)[r] = m
    <3>1. r \in 1..n
      BY DEF n, s
    <3> QED
      BY <1>2, <3>1
  <2> HIDE DEF m
  <2>3. p \notin m.start..m.end
    BY <1>1, <2>1
  <2>4. m.end < p
    BY <1>1, <2>1, <2>2, <2>3
  <2> QED
    BY <1>1, <2>1, <2>2, <2>4 DEF m
<1> HIDE DEF e
<1>5. /\ u \in 0..Len(t) /\ Bound(t, r) \in 0..Len(t) /\ u <= Bound(t, r)
      /\ Stops(t, r) # {} => u + 1 \in Stops(t, r) /\ \A q \in Stops(t, r) : u + 1 <= q
      /\ Window(t, Mentions(t), r) \in Seq(Word)
      /\ Len(Window(t, Mentions(t), r)) = IF e + 1 <= u THEN u - e ELSE 0
      /\ \A j \in 1..Len(Window(t, Mentions(t), r)) :
           e + j \in 1..Len(t) /\ Window(t, Mentions(t), r)[j] = t[e + j]
  BY <1>2, WindowsAre DEF e, N
<1>6. /\ uIn \in 0..p /\ Bound(s, r) \in 0..p /\ uIn <= Bound(s, r)
      /\ Stops(s, r) # {} => uIn + 1 \in Stops(s, r) /\ \A q \in Stops(s, r) : uIn + 1 <= q
      /\ Window(s, Mentions(s), r) \in Seq(Word)
      /\ Len(Window(s, Mentions(s), r)) = IF e + 1 <= uIn THEN uIn - e ELSE 0
      /\ \A j \in 1..Len(Window(s, Mentions(s), r)) :
           e + j \in 1..p /\ Window(s, Mentions(s), r)[j] = s[e + j]
  <2>1. r \in 1..Len(Mentions(s))
    BY DEF s
  <2>2. /\ Until(s, r) \in 0..Len(s) /\ Bound(s, r) \in 0..Len(s) /\ Until(s, r) <= Bound(s, r)
        /\ Stops(s, r) # {} =>
              /\ Until(s, r) + 1 \in Stops(s, r)
              /\ \A q \in Stops(s, r) : Until(s, r) + 1 <= q
        /\ Window(s, Mentions(s), r) \in Seq(Word)
        /\ Len(Window(s, Mentions(s), r)) =
              IF Mentions(s)[r].end + 1 <= Until(s, r) THEN Until(s, r) - Mentions(s)[r].end ELSE 0
        /\ \A j \in 1..Len(Window(s, Mentions(s), r)) :
              /\ Mentions(s)[r].end + j \in 1..Len(s)
              /\ Window(s, Mentions(s), r)[j] = s[Mentions(s)[r].end + j]
    BY <1>1, <2>1, WindowsAre
  <2> QED
    BY <1>1, <1>4, <2>2
<1>7. /\ \A q : q \in Stops(t, r) <=> q \in (e + 1)..Bound(t, r) /\ t[q] = Stop
      /\ \A q : q \in Stops(s, r) <=> q \in (e + 1)..Bound(s, r) /\ s[q] = Stop
  BY <1>4 DEF Stops, e
<1>8. uIn = u
  <2>1. CASE r < n
    <3>1. /\ r + 1 \in 1..n /\ r < N
          /\ Mentions(s)[r + 1] = Mentions(t)[r + 1] /\ Mentions(t)[r + 1].start <= p
      BY <1>2, <2>1
    <3>2. Bound(t, r) = Mentions(t)[r + 1].start - 1 /\ Bound(s, r) = Bound(t, r)
      BY <2>1, <3>1 DEF Bound, n, N
    <3>3. \A q \in (e + 1)..Bound(t, r) : q \in 1..p
      BY <1>1, <1>4, <1>6, <3>2
    <3>4. \A q : q \in Stops(s, r) <=> q \in Stops(t, r)
      BY <1>1, <1>7, <3>2, <3>3
    <3>5. Stops(s, r) = Stops(t, r)
      BY <3>4
    <3> QED
      BY <3>2, <3>5 DEF Until
  <2>2. CASE ~ (r < n)
    <3>1. r = n
      BY <1>2, <2>2 DEF n, s
    <3>2. Bound(s, r) = p
      BY <1>1, <2>2 DEF Bound, n
    <3>3. Bound(t, r) >= p
      <4>1. CASE r < N
        <5>1. r + 1 \in 1..N /\ r + 1 > n
          BY <1>2, <3>1, <4>1
        <5>2. Mentions(t)[r + 1].start > p /\ Mentions(t)[r + 1].start \in Nat
          BY <1>2, <1>3, <5>1
        <5>3. Bound(t, r) = Mentions(t)[r + 1].start - 1
          BY <4>1 DEF Bound, N
        <5> QED
          BY <1>1, <5>2, <5>3
      <4>2. CASE ~ (r < N)
        BY <1>1, <4>2 DEF Bound, N
      <4> QED
        BY <4>1, <4>2
    <3>4. p \in Stops(s, r) /\ p \in Stops(t, r)
      <4>1. p \in (e + 1)..Bound(s, r) /\ p \in (e + 1)..Bound(t, r)
        BY <1>1, <1>4, <1>5, <3>2, <3>3
      <4> QED
        BY <1>1, <1>7, <4>1
    <3>5. uIn + 1 \in Stops(s, r) /\ u + 1 \in Stops(t, r) /\ u + 1 <= p /\ uIn + 1 <= p
      BY <1>5, <1>6, <3>4
    <3> DEFINE x == u + 1  y == uIn + 1
    <3>6. x \in 1..p /\ y \in 1..p
      BY <1>1, <1>5, <1>6, <3>5
    <3>7. x \in Stops(s, r)
      <4>1. x \in (e + 1)..Bound(t, r) /\ t[x] = Stop
        BY <1>7, <3>5
      <4>2. s[x] = t[x]
        BY <1>1, <3>6
      <4>3. x \in (e + 1)..Bound(s, r)
        BY <1>4, <3>2, <3>6, <4>1
      <4> QED
        BY <1>7, <4>1, <4>2, <4>3
    <3>8. y \in Stops(t, r)
      <4>1. y \in (e + 1)..Bound(s, r) /\ s[y] = Stop
        BY <1>7, <3>5
      <4>2. s[y] = t[y]
        BY <1>1, <3>6
      <4>3. y \in (e + 1)..Bound(t, r)
        BY <1>1, <1>4, <1>5, <3>2, <3>3, <3>6, <4>1
      <4> QED
        BY <1>7, <4>1, <4>2, <4>3
    <3>9. y <= x /\ x <= y
      BY <1>5, <1>6, <3>4, <3>7, <3>8
    <3> QED
      BY <1>1, <1>5, <1>6, <3>9
  <2> QED
    BY <2>1, <2>2
<1>9. Window(s, Mentions(s), r) = Window(t, Mentions(t), r)
  <2> DEFINE w == Window(s, Mentions(s), r)  W == Window(t, Mentions(t), r)
  <2>1. w \in Seq(Word) /\ W \in Seq(Word) /\ Len(w) = Len(W)
    BY <1>5, <1>6, <1>8
  <2>2. \A j \in 1..Len(w) : w[j] = W[j]
    <3> TAKE j \in 1..Len(w)
    <3>1. w[j] = s[e + j] /\ e + j \in 1..p /\ W[j] = t[e + j]
      BY <1>5, <1>6, <2>1
    <3> QED
      BY <1>1, <3>1
  <2> HIDE DEF w, W
  <2>3. w = W
    BY <2>1, <2>2, EqualSequences
  <2> QED
    BY <2>3 DEF w, W
<1> QED
  BY <1>9 DEF s

\* The claims of a text up to a sentence's end are the first of the text's.
LEMMA CutClaims ==
  ASSUME NEW t \in Seq(Word), NEW p, EndsSentence(t, p)
  PROVE  IsPrefix(RuleAssisted(Cut(t, p)), RuleAssisted(t))
<1> DEFINE s == Cut(t, p)
           A == RuleAssisted(s)
           B == RuleAssisted(t)
           n == Len(Mentions(s))
           N == Len(Mentions(t))
<1>1. s \in Seq(Word)
  BY CutsAreTexts
<1>2. /\ n \in Nat /\ Len(A) = n /\ A \in Seq(Extracted)
      /\ \A i \in 1..n :
           A[i] = [feature |-> Mentions(s)[i].feature,
                   direction |-> DirectionOf(Window(s, Mentions(s), i))[1], rank |-> i,
                   magnitude |-> None, evidence |-> DirectionOf(Window(s, Mentions(s), i))[2]]
  BY <1>1, RuleClaims
<1>3. /\ N \in Nat /\ Len(B) = N /\ B \in Seq(Extracted)
      /\ \A i \in 1..N :
           B[i] = [feature |-> Mentions(t)[i].feature,
                   direction |-> DirectionOf(Window(t, Mentions(t), i))[1], rank |-> i,
                   magnitude |-> None, evidence |-> DirectionOf(Window(t, Mentions(t), i))[2]]
  BY RuleClaims
<1>4. n <= N /\ \A i \in 1..n : Mentions(s)[i] = Mentions(t)[i]
  BY CutMentions
<1>5. \A i \in 1..n : Window(s, Mentions(s), i) = Window(t, Mentions(t), i)
  BY CutWindows
<1> HIDE DEF A, B, n, N, s
<1>6. \A i \in 1..n : A[i] = B[i]
  <2> TAKE i \in 1..n
  <2>1. i \in 1..N
    BY <1>2, <1>3, <1>4
  <2> QED
    BY <1>2, <1>3, <1>4, <1>5, <2>1
<1>7. \A i \in 1..n : A[i] \in Extracted /\ B[i] \in Extracted
  <2>1. \A i \in 1..n : A[i] \in Extracted
    BY <1>2, LenProperties
  <2> QED
    BY <1>6, <2>1
<1>8. SubSeq(A, 1, n) = SubSeq(B, 1, n)
  <2> DEFINE a == SubSeq(A, 1, n)  b == SubSeq(B, 1, n)
  <2>0. n \in Int /\ 1 \in Int /\ \A i \in 1..n : A[i] \in Extracted /\ B[i] \in Extracted
    BY <1>2, <1>7
  <2>1. /\ a \in Seq(Extracted) /\ b \in Seq(Extracted) /\ Len(a) = Len(b)
        /\ Len(a) = IF 1 <= n THEN n - 1 + 1 ELSE 0
        /\ \A i \in 1..(n - 1 + 1) : a[i] = A[1 + i - 1] /\ b[i] = B[1 + i - 1]
    <3>1. /\ a \in Seq(Extracted) /\ Len(a) = IF 1 <= n THEN n - 1 + 1 ELSE 0
          /\ \A i \in 1..(n - 1 + 1) : a[i] = A[1 + i - 1]
      BY <2>0, SubSeqProperties
    <3>2. /\ b \in Seq(Extracted) /\ Len(b) = IF 1 <= n THEN n - 1 + 1 ELSE 0
          /\ \A i \in 1..(n - 1 + 1) : b[i] = B[1 + i - 1]
      BY <2>0, SubSeqProperties
    <3> HIDE DEF a, b
    <3> QED
      BY <3>1, <3>2
  <2> HIDE DEF a, b
  <2>2. \A i \in 1..Len(a) : a[i] = b[i]
    <3> TAKE i \in 1..Len(a)
    <3>1. i \in 1..n /\ i \in 1..(n - 1 + 1) /\ 1 + i - 1 = i
      BY <1>2, <2>1
    <3> QED
      BY <1>6, <2>1, <3>1
  <2>3. a = b
    BY <2>1, <2>2, EqualSequences
  <2> QED
    BY <2>3 DEF a, b
<1> QED
  BY <1>2, <1>3, <1>4, <1>8 DEF IsPrefix, A, B, s

\* What a later sentence says never changes how an earlier one was read, for any
\* vocabulary and any text.
THEOREM SentencesStayLocal == ClaimsSpec => []SentencesAreLocal
<1>1. ASSUME ClaimsInductive, ByRule, NEW p \in {q \in DOMAIN text : text[q] = Stop}
      PROVE  IsPrefix(RuleAssisted(SubSeq(text, 1, p)), claims)
  <2>1. /\ text \in Seq(Word) /\ claims = Extract(text, reply)
        /\ LastLlmParsed(reply) = TRUE <=> reply \notin {None, Unparsed}
    BY <1>1, ReadClaims DEF ByRule
  <2>2. claims = RuleAssisted(text)
    BY <1>1, <2>1 DEF ByRule, Extract
  <2>3. EndsSentence(text, p)
    BY <2>1, LenProperties DEF EndsSentence
  <2> QED
    BY <2>1, <2>2, <2>3, CutClaims DEF Cut
<1>2. ClaimsInductive => SentencesAreLocal
  BY <1>1 DEF SentencesAreLocal
<1> QED
  BY <1>2, ClaimsInvariance, PTL

(***************************************************************************)
(* The template is read back.                                              *)
(***************************************************************************)
NameAt(a, r) == NameOf[Top(a)[r].feature]
At(told, r) == Len(told[r - 1]) + 1

\* The first n sentences, each a name, a verb and a stop.
Laid(a, told, n) ==
  /\ Len(told[n]) \in Nat
  /\ \A r \in 1..n :
       /\ At(told, r) \in Nat \ {0}
       /\ At(told, r) + Len(NameAt(a, r)) + 1 <= Len(told[n])
       /\ \A j \in 1..Len(NameAt(a, r)) : told[n][At(told, r) + j - 1] = NameAt(a, r)[j]
       /\ told[n][At(told, r) + Len(NameAt(a, r))] = Verb(Top(a)[r])
       /\ told[n][At(told, r) + Len(NameAt(a, r)) + 1] = Stop
  /\ \A q \in 1..Len(told[n]) :
       \E r \in 1..n : At(told, r) <= q /\ q <= At(told, r) + Len(NameAt(a, r)) + 1

LEMMA NamesAre ==
  ASSUME NEW a, IsAttribution(a), NEW r \in 1..Len(Top(a))
  PROVE  /\ Len(Top(a)) \in Nat /\ Top(a)[r] \in Row /\ Top(a)[r] = Ranked(a)[r]
         /\ NameAt(a, r) \in Seq(Word) /\ Len(NameAt(a, r)) \in Nat \ {0}
         /\ \A j \in 1..Len(NameAt(a, r)) : NameAt(a, r)[j] # Stop
         /\ \E i \in 1..Len(Variants) : /\ LongestFirst[i].words = NameAt(a, r)
                                        /\ LongestFirst[i].canon = Top(a)[r].feature
<1> DEFINE f == Top(a)[r].feature
           name == NameAt(a, r)
<1>1. /\ Len(Top(a)) \in Nat /\ Top(a)[r] \in Row /\ Top(a)[r] = Ranked(a)[r]
      /\ Top(a) \in Seq(Row)
  BY TopIsAPrefix, LenProperties
<1>2. f \in Vocabulary
  <2> HIDE DEF Vocabulary
  <2> QED
    BY <1>1 DEF Row
<1>3. [words |-> NameOf[f], canon |-> f] \in Range(Variants)
  BY <1>2, ClaimsAssumption
<1>4. PICK i \in 1..Len(Variants) : Variants[i] = [words |-> NameOf[f], canon |-> f]
  BY <1>3, VariantsAreTyped, LenProperties DEF Range
<1>5. PICK j \in 1..Len(Variants) : LongestFirst[j] = Variants[i]
  BY VariantsAreSorted
<1>6. LongestFirst[j].words = name /\ LongestFirst[j].canon = f
  BY <1>4, <1>5 DEF NameAt
<1> HIDE DEF name, f
<1>7. /\ name \in Seq(Word) /\ Len(name) \in Nat \ {0} /\ \A q \in 1..Len(name) : name[q] # Stop
  BY <1>6, VariantsAreNames
<1> QED
  BY <1>1, <1>6, <1>7 DEF name, f

\* No two sentences tell the same name.
LEMMA NamesDiffer ==
  ASSUME NEW a, IsAttribution(a), NEW q \in 1..Len(Top(a)), NEW r \in 1..Len(Top(a)),
         Top(a)[q].feature = Top(a)[r].feature \/ NameAt(a, q) = NameAt(a, r)
  PROVE  q = r
<1>1. Top(a)[q] = Ranked(a)[q] /\ Top(a)[r] = Ranked(a)[r]
  BY NamesAre
<1>2. q \in 1..Len(a) /\ r \in 1..Len(a)
  <2>1. Len(Top(a)) \in 0..Len(a) /\ Len(a) \in Nat
    BY TopIsAPrefix, RankedIsSorted
  <2> QED
    BY <2>1
<1>3. Top(a)[q].feature = Top(a)[r].feature
  <2>1. PICK i \in 1..Len(Variants) :
          LongestFirst[i].words = NameAt(a, q) /\ LongestFirst[i].canon = Top(a)[q].feature
    BY NamesAre
  <2>2. PICK j \in 1..Len(Variants) :
          LongestFirst[j].words = NameAt(a, r) /\ LongestFirst[j].canon = Top(a)[r].feature
    BY NamesAre
  <2>3. PICK x \in 1..Len(Variants), y \in 1..Len(Variants) :
          LongestFirst[i] = Variants[x] /\ LongestFirst[j] = Variants[y]
    BY VariantsAreSorted
  <2>4. x \in DOMAIN Variants /\ y \in DOMAIN Variants
    BY VariantsAreTyped, LenProperties
  <2>5. NameAt(a, q) = NameAt(a, r) => Variants[x].canon = Variants[y].canon
    BY <2>1, <2>2, <2>3, <2>4, NamesAssumption
  <2> QED
    BY <2>1, <2>2, <2>3, <2>5
<1> QED
  BY <1>1, <1>2, <1>3, RankedIsSorted

LEMMA TemplateIsLaid ==
  ASSUME NEW a, IsAttribution(a), NEW told \in [0..Len(Top(a)) -> Seq(Word)], TellsInTurn(a, told),
         NEW n \in 0..Len(Top(a))
  PROVE  /\ Laid(a, told, n)
         /\ n > 0 => Len(told[n]) = Len(told[n - 1]) + Len(NameAt(a, n)) + 2
<1> DEFINE m == Len(Top(a))
           laid == {k \in Nat : k <= m => Laid(a, told, k)}
<1>1. m \in Nat /\ \A k \in 0..m : told[k] \in Seq(Word) /\ Len(told[k]) \in Nat
  BY TopIsAPrefix, RankedIsSorted, LenProperties
<1>2. 0 \in laid
  <2>1. told[0] = <<>>
    BY DEF TellsInTurn
  <2>2. Len(told[0]) = 0
    BY <2>1
  <2> HIDE DEF m
  <2>3. Laid(a, told, 0)
    BY <2>2 DEF Laid
  <2> QED
    BY <2>3
<1>3. ASSUME NEW k \in 1..m
      PROVE  /\ Len(told[k]) = Len(told[k - 1]) + Len(NameAt(a, k)) + 2
             /\ \A i \in 1..Len(told[k - 1]) : told[k][i] = told[k - 1][i]
             /\ \A j \in 1..Len(NameAt(a, k)) : told[k][At(told, k) + j - 1] = NameAt(a, k)[j]
             /\ told[k][At(told, k) + Len(NameAt(a, k))] = Verb(Top(a)[k])
             /\ told[k][At(told, k) + Len(NameAt(a, k)) + 1] = Stop
  <2> DEFINE s == told[k - 1]
             sentence == SentenceOf(Top(a)[k])
             L == Len(NameAt(a, k))
             whole == s \o sentence
  <2>1. told[k] = whole
    BY DEF TellsInTurn
  <2>2. /\ sentence \in Seq(Word) /\ Len(sentence) = L + 2 /\ L \in Nat
        /\ \A j \in 1..L : sentence[j] = NameAt(a, k)[j]
        /\ sentence[L + 1] = Verb(Top(a)[k]) /\ sentence[L + 2] = Stop
    <3>1. Top(a)[k] \in Row /\ Len(NameAt(a, k)) \in Nat
      BY NamesAre
    <3> QED
      BY <3>1, SentencesAreTexts DEF NameAt
  <2>3. k - 1 \in 0..m
    BY <1>1
  <2>4. s \in Seq(Word) /\ Len(s) \in Nat
    BY <1>1, <2>3
  <2> HIDE DEF s, sentence, L
  <2>5. /\ Len(whole) = Len(s) + Len(sentence)
        /\ \A i \in 1..Len(s) + Len(sentence) :
             whole[i] = IF i <= Len(s) THEN s[i] ELSE sentence[i - Len(s)]
    BY <2>2, <2>4, ConcatProperties
  <2> HIDE DEF whole
  <2>6. \A i \in 1..Len(s) : whole[i] = s[i]
    BY <2>2, <2>4, <2>5
  <2>7. \A j \in 1..(L + 2) : whole[Len(s) + j] = sentence[j]
    <3> TAKE j \in 1..(L + 2)
    <3>1. /\ Len(s) + j \in 1..Len(s) + Len(sentence) /\ ~ (Len(s) + j <= Len(s))
          /\ (Len(s) + j) - Len(s) = j
      BY <2>2, <2>4
    <3> QED
      BY <2>5, <3>1
  <2>8. At(told, k) = Len(s) + 1
    BY DEF At, s
  <2>9. \A j \in 1..L : At(told, k) + j - 1 = Len(s) + j /\ j \in 1..(L + 2)
    BY <2>2, <2>4, <2>8
  <2>10. /\ At(told, k) + L = Len(s) + (L + 1) /\ L + 1 \in 1..(L + 2)
         /\ At(told, k) + L + 1 = Len(s) + (L + 2) /\ L + 2 \in 1..(L + 2)
    BY <2>2, <2>4, <2>8
  <2>11. Len(whole) = Len(s) + L + 2
    BY <2>2, <2>4, <2>5
  <2>12. \A j \in 1..L : whole[At(told, k) + j - 1] = NameAt(a, k)[j]
    BY <2>2, <2>7, <2>9
  <2>13. whole[At(told, k) + L] = Verb(Top(a)[k]) /\ whole[At(told, k) + L + 1] = Stop
    BY <2>2, <2>7, <2>10
  <2> QED
    BY <2>1, <2>6, <2>11, <2>12, <2>13 DEF s, L
<1>4. ASSUME NEW k \in Nat, k \in laid PROVE k + 1 \in laid
  <2> SUFFICES ASSUME k + 1 <= m PROVE Laid(a, told, k + 1)
    OBVIOUS
  <2> DEFINE h == k + 1
             s == told[k]
             t == told[h]
             N == Len(s)
             L == Len(NameAt(a, h))
  <2>1. Laid(a, told, k) /\ h \in 1..m /\ h - 1 = k /\ k \in 0..m
    BY <1>1, <1>4
  <2>2. L \in Nat \ {0} /\ N \in Nat
    BY <1>1, <2>1, NamesAre
  <2> HIDE DEF h, m
  <2>3. /\ Len(t) = N + L + 2
        /\ \A i \in 1..N : t[i] = s[i]
        /\ \A j \in 1..L : t[At(told, h) + j - 1] = NameAt(a, h)[j]
        /\ t[At(told, h) + L] = Verb(Top(a)[h])
        /\ t[At(told, h) + L + 1] = Stop
    BY <1>3, <2>1
  <2>4. At(told, h) = N + 1
    BY <2>1 DEF At
  <2> HIDE DEF s, t, N, L
  <2>5. ASSUME NEW r \in 1..k
        PROVE  /\ At(told, r) \in Nat \ {0}
               /\ At(told, r) + Len(NameAt(a, r)) + 1 <= Len(t)
               /\ \A j \in 1..Len(NameAt(a, r)) : t[At(told, r) + j - 1] = NameAt(a, r)[j]
               /\ t[At(told, r) + Len(NameAt(a, r))] = Verb(Top(a)[r])
               /\ t[At(told, r) + Len(NameAt(a, r)) + 1] = Stop
    <3> DEFINE p == At(told, r)  K == Len(NameAt(a, r))
    <3>1. K \in Nat \ {0}
      <4>1. r \in 1..m
        BY <1>1, <2>1
      <4> QED
        BY <4>1, NamesAre DEF m
    <3>2. /\ p \in Nat \ {0} /\ p + K + 1 <= N
          /\ \A j \in 1..K : s[p + j - 1] = NameAt(a, r)[j]
          /\ s[p + K] = Verb(Top(a)[r]) /\ s[p + K + 1] = Stop
      BY <2>1 DEF Laid, s, N
    <3> HIDE DEF p, K
    <3>3. /\ \A j \in 1..K : p + j - 1 \in 1..N
          /\ p + K \in 1..N /\ p + K + 1 \in 1..N /\ p + K + 1 <= Len(t)
      <4>1. N \in Nat /\ Len(t) = N + L + 2 /\ L \in Nat
        BY <2>2, <2>3
      <4>2. \A j \in 1..K : p + j - 1 \in 1..N
        BY <3>1, <3>2, <4>1
      <4>3. p + K \in 1..N /\ p + K + 1 \in 1..N
        BY <3>1, <3>2, <4>1
      <4>4. p + K + 1 <= Len(t)
        BY <3>1, <3>2, <4>1
      <4> QED
        BY <4>2, <4>3, <4>4
    <3>4. \A j \in 1..K : t[p + j - 1] = NameAt(a, r)[j]
      BY <2>3, <3>2, <3>3
    <3>5. t[p + K] = Verb(Top(a)[r]) /\ t[p + K + 1] = Stop
      BY <2>3, <3>2, <3>3
    <3> QED
      BY <3>2, <3>3, <3>4, <3>5 DEF p, K
  <2>6. /\ At(told, h) \in Nat \ {0} /\ At(told, h) + L + 1 <= Len(t) /\ Len(t) \in Nat
    BY <2>2, <2>3, <2>4
  <2>7. \A r \in 1..h : r \in 1..k \/ r = h
    BY <2>1
  <2>8. ASSUME NEW q \in 1..Len(t)
        PROVE  \E r \in 1..h : At(told, r) <= q /\ q <= At(told, r) + Len(NameAt(a, r)) + 1
    <3>1. CASE q <= N
      <4>1. q \in 1..N
        BY <2>2, <3>1
      <4>2. PICK r \in 1..k : At(told, r) <= q /\ q <= At(told, r) + Len(NameAt(a, r)) + 1
        BY <2>1, <4>1 DEF Laid, N, s
      <4>3. r \in 1..h
        BY <2>1
      <4> QED
        BY <4>2, <4>3
    <3>2. CASE ~ (q <= N)
      <4>1. At(told, h) <= q /\ q <= At(told, h) + L + 1
        BY <2>2, <2>3, <2>4, <3>2
      <4>2. h \in 1..h
        BY <2>1
      <4> QED
        BY <4>1, <4>2 DEF L
    <3> QED
      BY <3>1, <3>2
  <2>9. Laid(a, told, h)
    <3>1. \A r \in 1..h :
               /\ At(told, r) \in Nat \ {0}
               /\ At(told, r) + Len(NameAt(a, r)) + 1 <= Len(t)
               /\ \A j \in 1..Len(NameAt(a, r)) : t[At(told, r) + j - 1] = NameAt(a, r)[j]
               /\ t[At(told, r) + Len(NameAt(a, r))] = Verb(Top(a)[r])
               /\ t[At(told, r) + Len(NameAt(a, r)) + 1] = Stop
      BY <2>3, <2>5, <2>6, <2>7 DEF L
    <3> QED
      BY <2>6, <2>8, <3>1 DEF Laid, t
  <2> QED
    BY <2>9 DEF h
<1> HIDE DEF laid
<1>5. Nat \subseteq laid
  BY <1>2, <1>4, Reached
<1>6. n \in Nat /\ n <= m /\ (n > 0 => n \in 1..m)
  BY <1>1
<1>7. Laid(a, told, n)
  <2>1. n \in laid
    BY <1>5, <1>6
  <2> QED
    BY <1>6, <2>1 DEF laid
<1> QED
  BY <1>3, <1>6, <1>7

Template(a, told) ==
  /\ IsAttribution(a)
  /\ told \in [0..Len(Top(a)) -> Seq(Word)]
  /\ TellsInTurn(a, told)

EndAt(a, told, r) == At(told, r) + Len(NameAt(a, r)) - 1
MentionAt(a, told, r) ==
  [feature |-> Top(a)[r].feature, start |-> At(told, r), end |-> EndAt(a, told, r)]

\* Where the sentences stand in the whole text.
LEMMA SentencesFollow ==
  ASSUME NEW a, NEW told, Template(a, told)
  PROVE  LET m == Len(Top(a))
             t == told[Len(Top(a))]
         IN /\ m \in Nat /\ t \in Seq(Word) /\ Len(t) \in Nat /\ t = Rendered(a, NameOf)
            /\ \A r \in 1..m :
                 /\ At(told, r) \in Nat \ {0} /\ EndAt(a, told, r) \in Nat
                 /\ Len(NameAt(a, r)) \in Nat \ {0}
                 /\ EndAt(a, told, r) = At(told, r) + Len(NameAt(a, r)) - 1
                 /\ At(told, r) <= EndAt(a, told, r) /\ EndAt(a, told, r) + 2 <= Len(t)
                 /\ \A j \in 1..Len(NameAt(a, r)) : t[At(told, r) + j - 1] = NameAt(a, r)[j]
                 /\ t[EndAt(a, told, r) + 1] = Verb(Top(a)[r])
                 /\ t[EndAt(a, told, r) + 2] = Stop
                 /\ (IF r < m THEN At(told, r + 1) - 1 ELSE Len(t)) = EndAt(a, told, r) + 2
            /\ \A q, r \in 1..m : q < r => EndAt(a, told, q) + 2 < At(told, r)
            /\ \A q \in 1..Len(t) : \E r \in 1..m : At(told, r) <= q /\ q <= EndAt(a, told, r) + 2
<1> DEFINE m == Len(Top(a))
           t == told[Len(Top(a))]
           L(r) == Len(NameAt(a, r))
<1>1. /\ m \in Nat /\ IsAttribution(a) /\ TellsInTurn(a, told) /\ told \in [0..m -> Seq(Word)]
  BY TopIsAPrefix, RankedIsSorted DEF Template
<1>2. t \in Seq(Word) /\ t = Rendered(a, NameOf) /\ Len(t) \in Nat
  <2>1. m \in 0..m
    BY <1>1
  <2>2. t \in Seq(Word)
    BY <1>1, <2>1
  <2> QED
    BY <1>1, <2>2, LenProperties DEF TellsInTurn
<1>3. \A n \in 0..m : Laid(a, told, n) /\ (n > 0 => Len(told[n]) = Len(told[n - 1]) + L(n) + 2)
  BY <1>1, TemplateIsLaid
<1>4. Laid(a, told, m)
  BY <1>1, <1>3
<1>5. \A r \in 1..m : L(r) \in Nat \ {0}
  BY <1>1, NamesAre
<1>6. \A n \in 0..m : Len(told[n]) \in Nat
  BY <1>3 DEF Laid
<1>7. ASSUME NEW r \in 1..m
      PROVE  /\ At(told, r) \in Nat \ {0} /\ At(told, r) + L(r) + 1 <= Len(t)
             /\ \A j \in 1..L(r) : t[At(told, r) + j - 1] = NameAt(a, r)[j]
             /\ t[At(told, r) + L(r)] = Verb(Top(a)[r])
             /\ t[At(told, r) + L(r) + 1] = Stop
  BY <1>4 DEF Laid
<1>8. \A q \in 1..Len(t) : \E r \in 1..m : At(told, r) <= q /\ q <= At(told, r) + L(r) + 1
  BY <1>4 DEF Laid
<1>9. ASSUME NEW q \in 1..m, NEW r \in 1..m, q < r PROVE At(told, q) + L(q) + 1 < At(told, r)
  <2>1. r - 1 \in 0..m /\ q \in 1..(r - 1)
    BY <1>1, <1>9
  <2>2. At(told, q) + L(q) + 1 <= Len(told[r - 1])
    BY <1>3, <2>1 DEF Laid
  <2>3. At(told, r) = Len(told[r - 1]) + 1 /\ Len(told[r - 1]) \in Nat
    BY <1>6, <2>1 DEF At
  <2>4. At(told, q) \in Nat /\ L(q) \in Nat
    BY <1>5, <1>7
  <2> HIDE DEF L
  <2> QED
    BY <2>2, <2>3, <2>4
<1>10. ASSUME NEW r \in 1..m
       PROVE  (IF r < m THEN At(told, r + 1) - 1 ELSE Len(t)) = At(told, r) + L(r) + 1
  <2>1. r \in 0..m /\ r > 0 /\ (r + 1) - 1 = r /\ r - 1 \in 0..m
    BY <1>1
  <2>2. Len(told[r]) = Len(told[r - 1]) + L(r) + 2
    BY <1>3, <2>1
  <2>3. At(told, r) = Len(told[r - 1]) + 1 /\ At(told, r + 1) = Len(told[r]) + 1
    BY <2>1 DEF At
  <2>4. Len(told[r - 1]) \in Nat /\ Len(told[r]) \in Nat /\ L(r) \in Nat
    BY <1>5, <1>6, <2>1
  <2>5. ~ (r < m) => r = m
    BY <1>1
  <2>6. ~ (r < m) => Len(t) = Len(told[r])
    BY <2>5
  <2> HIDE DEF L, t, m
  <2> QED
    BY <2>2, <2>3, <2>4, <2>6
<1>11. \A r \in 1..m : EndAt(a, told, r) = At(told, r) + L(r) - 1
  BY DEF EndAt
<1> HIDE DEF m, t
<1>12. ASSUME NEW r \in 1..m
       PROVE  /\ EndAt(a, told, r) \in Nat /\ At(told, r) <= EndAt(a, told, r)
              /\ EndAt(a, told, r) + 1 = At(told, r) + L(r)
              /\ EndAt(a, told, r) + 2 = At(told, r) + L(r) + 1
  <2> HIDE DEF L
  <2> QED
    BY <1>5, <1>7, <1>11
<1>13. \A q, r \in 1..m : q < r => EndAt(a, told, q) + 2 < At(told, r)
  BY <1>9, <1>12
<1>14. \A q \in 1..Len(t) : \E r \in 1..m : At(told, r) <= q /\ q <= EndAt(a, told, r) + 2
  BY <1>8, <1>12
<1>15. \A r \in 1..m : /\ EndAt(a, told, r) + 2 <= Len(t)
                       /\ t[EndAt(a, told, r) + 1] = Verb(Top(a)[r])
                       /\ t[EndAt(a, told, r) + 2] = Stop
                       /\ (IF r < m THEN At(told, r + 1) - 1 ELSE Len(t)) = EndAt(a, told, r) + 2
  BY <1>7, <1>10, <1>12
<1> QED
  BY <1>1, <1>2, <1>5, <1>7, <1>11, <1>12, <1>13, <1>14, <1>15 DEF m, t

\* A name that occurs in the text occurs inside a told name.
LEMMA OccurrencesAreNamed ==
  ASSUME NEW a, NEW told, Template(a, told), NEW k \in 1..Len(Variants),
         NEW p \in Occurrences(told[Len(Top(a))], LongestFirst[k].words)
  PROVE  /\ p \in Nat
         /\ \E r \in 1..Len(Top(a)) :
              /\ At(told, r) <= p
              /\ p + Len(LongestFirst[k].words) - 1 <= EndAt(a, told, r)
<1> DEFINE m == Len(Top(a))
           t == told[Len(Top(a))]
           words == LongestFirst[k].words
           L == Len(words)
<1>1. /\ words \in Seq(Word) /\ L \in Nat \ {0} /\ \A j \in 1..L : words[j] # Stop
  BY VariantsAreNames
<1>2. words[L] \notin DOMAIN Valenced
  <2>1. PICK i \in 1..Len(Variants) : LongestFirst[k] = Variants[i]
    BY VariantsAreSorted
  <2>2. i \in DOMAIN Variants
    BY VariantsAreTyped, LenProperties
  <2> QED
    BY <2>1, <2>2, NamesAssumption DEF Last
<1>3. t \in Seq(Word) /\ Len(t) \in Nat
  BY SentencesFollow
<1>4. /\ p \in 1..(Len(t) - L + 1) /\ \A j \in 1..L : t[p + j - 1] = words[j]
  <2>1. p \in Occurrences(t, words)
    OBVIOUS
  <2> HIDE DEF t, words
  <2>2. Occurrences(t, words) =
          {q \in 1..(Len(t) - L + 1) : \A j \in 1..L : t[q + j - 1] = words[j]}
    BY <1>1, <1>3, OccurrencesAre
  <2> QED
    BY <2>1, <2>2
<1> HIDE DEF m, t, words, L
<1>5. p \in 1..Len(t) /\ p \in Nat
  BY <1>1, <1>3, <1>4
<1>6. PICK r \in 1..m : At(told, r) <= p /\ p <= EndAt(a, told, r) + 2
  BY <1>5, SentencesFollow DEF m, t
<1> DEFINE e == EndAt(a, told, r)
<1>7. /\ e \in Nat /\ t[e + 1] = Verb(Top(a)[r]) /\ t[e + 2] = Stop
  BY SentencesFollow DEF m, t
<1> HIDE DEF e
<1>8. ASSUME e + 2 <= p + L - 1 PROVE FALSE
  <2> DEFINE j == e + 3 - p
  <2>1. j \in 1..L /\ p + j - 1 = e + 2
    <3>1. p \in Int /\ e \in Int /\ L \in Int /\ p <= e + 2 /\ e + 2 <= p + L - 1
      BY <1>1, <1>5, <1>6, <1>7, <1>8 DEF e
    <3> QED
      BY <3>1
  <2> HIDE DEF j
  <2>2. t[e + 2] = words[j]
    BY <1>4, <2>1
  <2> QED
    BY <1>1, <1>7, <2>1, <2>2
<1>9. ASSUME e + 1 = p + L - 1 PROVE FALSE
  <2>1. L \in 1..L
    BY <1>1
  <2>2. t[e + 1] = words[L]
    BY <1>4, <1>9, <2>1
  <2>3. Verb(Top(a)[r]) \in DOMAIN Valenced
    BY DEF Verb, Valenced
  <2> QED
    BY <1>2, <1>7, <2>2, <2>3 DEF words, L
<1>10. p + L - 1 <= e
  BY <1>1, <1>5, <1>7, <1>8, <1>9
<1> QED
  BY <1>5, <1>6, <1>10 DEF m, words, L, e

\* Whether the r-th name told is among the first k variants.
Scanned(a, k, r) == \E j \in 1..k : LongestFirst[j].words = NameAt(a, r)

\* Found are the told names among those scanned.
FoundNames(a, told, k, found) ==
  /\ \A q : q \in found.consumed <=>
       \E r \in 1..Len(Top(a)) : Scanned(a, k, r) /\ q \in At(told, r)..EndAt(a, told, r)
  /\ \A x : x \in found.mentions <=>
       \E r \in 1..Len(Top(a)) : Scanned(a, k, r) /\ x = MentionAt(a, told, r)

\* What is free to the next variant is the told name that it is.
LEMMA FreeNames ==
  ASSUME NEW a, NEW told, Template(a, told), NEW k \in 1..Len(Variants), NEW found,
         FoundNames(a, told, k - 1, found)
  PROVE  \A p : p \in Free(told[Len(Top(a))], found.consumed, LongestFirst[k].words) <=>
           \E r \in 1..Len(Top(a)) :
             /\ p = At(told, r) /\ LongestFirst[k].words = NameAt(a, r)
             /\ ~ Scanned(a, k - 1, r)
<1> DEFINE m == Len(Top(a))
           t == told[Len(Top(a))]
           words == LongestFirst[k].words
           L == Len(words)
           free == Free(t, found.consumed, words)
<1>1. words \in Seq(Word) /\ L \in Nat \ {0}
  BY VariantsAreNames
<1>2. t \in Seq(Word) /\ m \in Nat
  BY SentencesFollow
<1>3. \A r \in 1..m : /\ At(told, r) \in Nat \ {0} /\ EndAt(a, told, r) \in Nat
                      /\ Len(NameAt(a, r)) \in Nat \ {0}
                      /\ EndAt(a, told, r) = At(told, r) + Len(NameAt(a, r)) - 1
                      /\ EndAt(a, told, r) + 2 <= Len(t)
                      /\ \A j \in 1..Len(NameAt(a, r)) : t[At(told, r) + j - 1] = NameAt(a, r)[j]
  BY SentencesFollow
<1>4. \A q, r \in 1..m : q < r => EndAt(a, told, q) + 2 < At(told, r)
  BY SentencesFollow
<1>5. k \in Nat /\ 1 <= k /\ Len(Variants) \in Nat /\ k <= Len(Variants)
  BY VariantsAreSorted
<1>6. IsAttribution(a)
  BY DEF Template
<1>7. \A q : q \in found.consumed <=>
        \E r \in 1..m : Scanned(a, k - 1, r) /\ q \in At(told, r)..EndAt(a, told, r)
  BY DEF FoundNames
<1>8. \A p : p \in free <=> p \in Occurrences(t, words) /\ Span(p, words) \cap found.consumed = {}
  BY DEF Free
<1>9. ASSUME NEW p \in free
      PROVE  \E r \in 1..m : p = At(told, r) /\ words = NameAt(a, r) /\ ~ Scanned(a, k - 1, r)
  <2>1. p \in Occurrences(t, words) /\ Span(p, words) \cap found.consumed = {}
    BY <1>8
  <2>2. PICK r \in 1..m : At(told, r) <= p /\ p + L - 1 <= EndAt(a, told, r)
    BY <2>1, OccurrencesAreNamed
  <2>3. p \in Nat
    BY <2>1, OccurrencesAreNamed
  <2>4. Span(p, words) = p..(p + L - 1)
    <3>1. p \in Int /\ Len(words) \in Nat \ {0}
      BY <1>1, <2>3
    <3> HIDE DEF words
    <3> QED
      BY <3>1, SpansAreIntervals
  <2>5. p \in Span(p, words) /\ p \in At(told, r)..EndAt(a, told, r)
    <3> HIDE DEF L, m
    <3> QED
      BY <1>1, <1>3, <2>2, <2>3, <2>4
  <2>6. ~ Scanned(a, k - 1, r)
    <3>1. p \notin found.consumed
      BY <2>1, <2>5
    <3> HIDE DEF m
    <3> QED
      BY <1>7, <2>5, <3>1
  <2>7. PICK j \in 1..Len(Variants) : LongestFirst[j].words = NameAt(a, r)
    BY <1>6, NamesAre
  <2>8. j >= k
    BY <1>5, <2>6, <2>7 DEF Scanned
  <2>9. Len(NameAt(a, r)) <= L
    <3>1. CASE j = k
      <4>1. words = NameAt(a, r)
        BY <2>7, <3>1
      <4> QED
        BY <1>1, <4>1
    <3>2. CASE k < j
      <4>1. Len(LongestFirst[k].words) >= Len(LongestFirst[j].words)
        BY <3>2, VariantsAreSorted
      <4>2. Len(LongestFirst[j].words) = Len(NameAt(a, r))
        BY <2>7
      <4> QED
        BY <1>1, <1>3, <4>1, <4>2
    <3> QED
      BY <1>5, <2>8, <3>1, <3>2
  <2> DEFINE name == NameAt(a, r)  s == At(told, r)
  <2>10. /\ s \in Nat /\ Len(name) \in Nat /\ EndAt(a, told, r) = s + Len(name) - 1
         /\ \A i \in 1..Len(name) : t[s + i - 1] = name[i]
    BY <1>3
  <2>11. \A i \in 1..L : t[p + i - 1] = words[i]
    <3> HIDE DEF t, words, free
    <3>1. Occurrences(t, words) =
            {q \in 1..(Len(t) - L + 1) : \A h \in 1..L : t[q + h - 1] = words[h]}
      BY <1>1, <1>2, OccurrencesAre
    <3> QED
      BY <2>1, <3>1
  <2>12. name \in Seq(Word)
    BY <1>6, NamesAre
  <2> HIDE DEF name, s, t, words, L, m
  <2>13. s <= p /\ p + L - 1 <= s + Len(name) - 1 /\ Len(name) <= L
    BY <2>2, <2>9, <2>10 DEF s, name
  <2>14. p = s /\ L = Len(name)
    BY <1>1, <2>3, <2>10, <2>13
  <2>15. \A i \in 1..Len(words) : words[i] = name[i]
    BY <2>10, <2>11, <2>14 DEF L
  <2>16. words = name
    BY <1>1, <2>12, <2>14, <2>15, EqualSequences DEF L
  <2> QED
    BY <2>6, <2>14, <2>16 DEF s, name
<1>10. ASSUME NEW r \in 1..m, words = NameAt(a, r), ~ Scanned(a, k - 1, r)
       PROVE  At(told, r) \in free
  <2> DEFINE s == At(told, r)
  <2>1. /\ s \in Nat \ {0} /\ EndAt(a, told, r) = s + L - 1 /\ EndAt(a, told, r) + 2 <= Len(t)
        /\ \A j \in 1..L : t[s + j - 1] = words[j]
    BY <1>3, <1>10
  <2> HIDE DEF t, words, L, free, m, s
  <2>2. s \in Occurrences(t, words)
    <3>1. Len(t) \in Nat
      BY <1>2, LenProperties
    <3>2. s \in 1..(Len(t) - Len(words) + 1)
      BY <1>1, <2>1, <3>1 DEF L
    <3>3. \A j \in 1..Len(words) : t[s + j - 1] = words[j]
      BY <2>1 DEF L
    <3> QED
      BY <1>1, <1>2, <3>2, <3>3, OccurrencesAre DEF L
  <2>3. Span(s, words) = s..(s + L - 1)
    BY <1>1, <2>1, SpansAreIntervals DEF L
  <2>4. ASSUME NEW q \in Span(s, words), q \in found.consumed PROVE FALSE
    <3>1. PICK o \in 1..m : Scanned(a, k - 1, o) /\ q \in At(told, o)..EndAt(a, told, o)
      BY <1>7, <2>4
    <3>2. q \in s..EndAt(a, told, r)
      BY <2>1, <2>3
    <3>3. o # r
      BY <1>10, <3>1
    <3>4. o < r \/ r < o
      BY <1>2, <3>3
    <3>5. /\ At(told, r) \in Nat /\ EndAt(a, told, r) \in Nat
          /\ At(told, o) \in Nat /\ EndAt(a, told, o) \in Nat
      BY <1>3
    <3>6. ~ (o < r)
      BY <1>4, <3>1, <3>2, <3>5 DEF s
    <3>7. ~ (r < o)
      BY <1>4, <3>1, <3>2, <3>5 DEF s
    <3> QED
      BY <3>4, <3>6, <3>7
  <2>5. Span(s, words) \cap found.consumed = {}
    BY <2>4
  <2>6. s \in free
    BY <1>8, <2>2, <2>5
  <2> QED
    BY <2>6 DEF s
<1> QED
  BY <1>9, <1>10

LEMMA NamesAreConsumed ==
  ASSUME NEW a, NEW told, Template(a, told), NEW k \in 1..Len(Variants), NEW found,
         FoundNames(a, told, k - 1, found)
  PROVE  FoundNames(a, told, k, Consume(told[Len(Top(a))], found, LongestFirst[k]))
<1> DEFINE m == Len(Top(a))
           t == told[Len(Top(a))]
           v == LongestFirst[k]
           free == Free(t, found.consumed, v.words)
           x == Min(free)
           known == {o \in found.mentions : o.feature = v.canon}
           after == Consume(t, found, v)
<1>1. /\ v \in Variant /\ Len(v.words) \in Nat \ {0} /\ t \in Seq(Word) /\ IsAttribution(a)
      /\ k \in Nat /\ 1 <= k
  <2>1. v \in Variant /\ Len(v.words) \in Nat \ {0}
    BY VariantsAreNames
  <2>2. t \in Seq(Word)
    BY SentencesFollow
  <2>3. IsAttribution(a)
    BY DEF Template
  <2>4. k \in Nat /\ 1 <= k
    BY VariantsAreSorted
  <2> QED
    BY <2>1, <2>2, <2>3, <2>4
<1>2. \A p : p \in free <=>
        \E r \in 1..m : p = At(told, r) /\ v.words = NameAt(a, r) /\ ~ Scanned(a, k - 1, r)
  BY FreeNames
<1>3. \A r \in 1..m : Scanned(a, k, r) <=> Scanned(a, k - 1, r) \/ v.words = NameAt(a, r)
  <2> TAKE r \in 1..m
  <2>1. \A j : j \in 1..k <=> j \in 1..(k - 1) \/ j = k
    BY <1>1
  <2> QED
    BY <2>1 DEF Scanned
<1>4. /\ \A q : q \in found.consumed <=>
           \E r \in 1..m : Scanned(a, k - 1, r) /\ q \in At(told, r)..EndAt(a, told, r)
      /\ \A o : o \in found.mentions <=>
           \E r \in 1..m : Scanned(a, k - 1, r) /\ o = MentionAt(a, told, r)
  BY DEF FoundNames
<1>5. CASE free = {}
  <2>1. after = found
    BY <1>1, <1>5, Consumes
  <2>2. \A r \in 1..m : Scanned(a, k, r) <=> Scanned(a, k - 1, r)
    <3> HIDE DEF free
    <3> QED
      BY <1>2, <1>3, <1>5
  <2> HIDE DEF after, m
  <2>3. FoundNames(a, told, k, after)
    BY <1>4, <2>1, <2>2 DEF FoundNames, m
  <2> QED
    BY <2>3 DEF after
<1>6. CASE free # {}
  <2>1. /\ x \in free
        /\ after = [consumed |-> found.consumed \cup x..(x + Len(v.words) - 1),
                    mentions |-> IF \E o \in known : o.start < x THEN found.mentions
                                 ELSE (found.mentions \ known) \cup {Told(v, x)}]
    BY <1>1, <1>6, Consumes
  <2> HIDE DEF free, x
  <2>2. PICK r \in 1..m : x = At(told, r) /\ v.words = NameAt(a, r) /\ ~ Scanned(a, k - 1, r)
    BY <1>2, <2>1
  <2>3. \A o \in 1..m : v.words = NameAt(a, o) => o = r
    BY <1>1, <2>2, NamesDiffer
  <2>4. v.canon = Top(a)[r].feature
    <3>1. PICK i \in 1..Len(Variants) : /\ LongestFirst[i].words = NameAt(a, r)
                                        /\ LongestFirst[i].canon = Top(a)[r].feature
      BY <1>1, NamesAre
    <3>2. PICK y \in 1..Len(Variants), z \in 1..Len(Variants) :
            LongestFirst[i] = Variants[y] /\ LongestFirst[k] = Variants[z]
      BY VariantsAreSorted
    <3>3. y \in DOMAIN Variants /\ z \in DOMAIN Variants
      BY VariantsAreTyped, LenProperties
    <3> QED
      BY <2>2, <3>1, <3>2, <3>3, NamesAssumption
  <2>5. known = {}
    <3> SUFFICES ASSUME NEW o \in known PROVE FALSE
      OBVIOUS
    <3>1. PICK q \in 1..m : Scanned(a, k - 1, q) /\ o = MentionAt(a, told, q)
      BY <1>4
    <3>2. Top(a)[q].feature = Top(a)[r].feature
      BY <2>4, <3>1 DEF MentionAt
    <3>3. q = r
      BY <1>1, <3>2, NamesDiffer
    <3> QED
      BY <2>2, <3>1, <3>3
  <2>6. Told(v, x) = MentionAt(a, told, r) /\ x + Len(v.words) - 1 = EndAt(a, told, r)
    BY <2>2, <2>4 DEF Told, MentionAt, EndAt
  <2>7. /\ after.consumed = found.consumed \cup At(told, r)..EndAt(a, told, r)
        /\ after.mentions = found.mentions \cup {MentionAt(a, told, r)}
    <3> HIDE DEF known, after
    <3>1. after.consumed = found.consumed \cup x..(x + Len(v.words) - 1)
      BY <2>1
    <3>2. after.mentions = (found.mentions \ known) \cup {Told(v, x)}
      BY <2>1, <2>5
    <3> QED
      BY <2>2, <2>5, <2>6, <3>1, <3>2
  <2>8. \A o \in 1..m : Scanned(a, k, o) <=> Scanned(a, k - 1, o) \/ o = r
    BY <1>3, <2>2, <2>3
  <2> HIDE DEF after, m, known, v
  <2>9. \A q : q \in after.consumed <=>
          \E o \in 1..m : Scanned(a, k, o) /\ q \in At(told, o)..EndAt(a, told, o)
    BY <1>4, <2>7, <2>8
  <2>10. \A y : y \in after.mentions <=>
           \E o \in 1..m : Scanned(a, k, o) /\ y = MentionAt(a, told, o)
    BY <1>4, <2>7, <2>8
  <2>11. FoundNames(a, told, k, after)
    BY <2>9, <2>10 DEF FoundNames, m
  <2> QED
    BY <2>11 DEF after, v
<1> QED
  BY <1>5, <1>6

\* The features found in a rendered text are those told, where they are told.
LEMMA TemplateIsFound ==
  ASSUME NEW a, NEW told, Template(a, told)
  PROVE  \A x : x \in Mentioned(told[Len(Top(a))]) <=>
           \E r \in 1..Len(Top(a)) : x = MentionAt(a, told, r)
<1> DEFINE n == Len(Variants)
           m == Len(Top(a))
           t == told[Len(Top(a))]
           named == {j \in Nat : j <= n => FoundNames(a, told, j, Found(t, j))}
<1>1. n \in Nat /\ t \in Seq(Word) /\ IsAttribution(a)
  BY VariantsAreSorted, SentencesFollow DEF Template
<1>2. 0 \in named
  <2> DEFINE none == [consumed |-> {}, mentions |-> {}]
  <2> HIDE DEF t
  <2>1. Found(t, 0) = none
    BY <1>1, FoundInTurn
  <2>2. none.consumed = {} /\ none.mentions = {} /\ \A r : ~ Scanned(a, 0, r)
    BY DEF Scanned
  <2> HIDE DEF none
  <2>3. FoundNames(a, told, 0, none)
    BY <2>2 DEF FoundNames
  <2> QED
    BY <2>1, <2>3
<1>3. ASSUME NEW j \in Nat, j \in named PROVE j + 1 \in named
  <2> SUFFICES ASSUME j + 1 <= n PROVE FoundNames(a, told, j + 1, Found(t, j + 1))
    OBVIOUS
  <2> DEFINE k == j + 1
  <2>1. k \in 1..n /\ k - 1 = j /\ FoundNames(a, told, j, Found(t, j))
    BY <1>1, <1>3
  <2> HIDE DEF k
  <2>2. Found(t, k) = Consume(t, Found(t, j), LongestFirst[k])
    BY <1>1, <2>1, FoundInTurn
  <2>3. FoundNames(a, told, k, Found(t, k))
    BY <2>1, <2>2, NamesAreConsumed
  <2> QED
    BY <2>3 DEF k
<1> HIDE DEF named
<1>4. Nat \subseteq named
  BY <1>2, <1>3, Reached
<1>5. FoundNames(a, told, n, Found(t, n))
  <2>1. n \in named
    BY <1>1, <1>4
  <2> QED
    BY <1>1, <2>1 DEF named
<1>6. \A r \in 1..m : Scanned(a, n, r)
  BY <1>1, NamesAre DEF Scanned
<1> QED
  BY <1>5, <1>6 DEF FoundNames, Mentioned

\* Things numbered from 1 to n without repetition are n.
LEMMA NumberedAreCounted ==
  ASSUME NEW n \in Nat, NEW f, NEW S, S = {f[r] : r \in 1..n},
         \A q, r \in 1..n : f[q] = f[r] => q = r
  PROVE  IsFiniteSet(S) /\ Cardinality(S) = n
<1> DEFINE N == 1..n
           g == [r \in N |-> f[r]]
<1>1. IsFiniteSet(N) /\ Cardinality(N) = n
  BY FS_Interval
<1>2. g \in Bijection(N, S)
  <2>1. g \in [N -> S] /\ \A s \in S : \E r \in N : g[r] = s
    OBVIOUS
  <2>2. \A q, r \in N : g[q] = g[r] => q = r
    OBVIOUS
  <2> HIDE DEF g, N
  <2> QED
    BY <2>1, <2>2 DEF Bijection, Injection, Surjection, IsInjective
<1> HIDE DEF N, g
<1>3. ExistsBijection(N, S)
  BY <1>2 DEF ExistsBijection
<1> QED
  BY <1>1, <1>3, FS_Bijection

\* They are found in the order told.
LEMMA TemplateIsInOrder ==
  ASSUME NEW a, NEW told, Template(a, told)
  PROVE  LET t == told[Len(Top(a))]
         IN /\ Len(Mentions(t)) = Len(Top(a))
            /\ \A r \in 1..Len(Top(a)) : Mentions(t)[r] = MentionAt(a, told, r)
<1> DEFINE m == Len(Top(a))
           t == told[Len(Top(a))]
           S == Mentioned(t)
           before == StartsBefore(S)
           f == [r \in 1..m |-> MentionAt(a, told, r)]
           order == Mentions(t)
<1>1. /\ m \in Nat /\ t \in Seq(Word)
      /\ \A r \in 1..m : At(told, r) \in Nat /\ EndAt(a, told, r) \in Nat
                         /\ At(told, r) <= EndAt(a, told, r)
      /\ \A q, r \in 1..m : q < r => EndAt(a, told, q) + 2 < At(told, r)
  BY SentencesFollow
<1>2. \A q, r \in 1..m : q < r <=> At(told, q) < At(told, r)
  <2> HIDE DEF m
  <2> TAKE q, r \in 1..m
  <2>1. q < r \/ q = r \/ r < q
    BY <1>1
  <2>2. q < r => At(told, q) < At(told, r)
    BY <1>1
  <2>3. r < q => At(told, r) < At(told, q)
    BY <1>1
  <2>4. At(told, q) \in Nat /\ At(told, r) \in Nat
    BY <1>1
  <2> QED
    BY <1>1, <2>1, <2>2, <2>3, <2>4
<1>3. \A r \in 1..m : f[r] = MentionAt(a, told, r) /\ f[r].start = At(told, r)
  BY DEF MentionAt
<1>4. S = {f[r] : r \in 1..m}
  <2>1. \A x : x \in S <=> \E r \in 1..m : x = MentionAt(a, told, r)
    BY TemplateIsFound
  <2> HIDE DEF f, m, S
  <2> QED
    BY <1>3, <2>1
<1> HIDE DEF f
<1>5. /\ StrictOrder(S, before) /\ order = InOrder(S, before)
      /\ Len(order) = Cardinality(S)
  BY <1>1, MentionsAreSorted
<1> HIDE DEF S, order, m, t
<1>6. DOMAIN f = 1..m
  BY DEF f
<1>7. ASSUME NEW n \in 0..m
      PROVE  IsFiniteSet({f[r] : r \in 1..n}) /\ Cardinality({f[r] : r \in 1..n}) = n
  <2>1. n \in Nat /\ \A r \in 1..n : r \in 1..m
    BY <1>1
  <2>2. \A q, r \in 1..n : f[q] = f[r] => q = r
    <3> TAKE q, r \in 1..n
    <3>1. q \in 1..m /\ r \in 1..m /\ q \in Int /\ r \in Int
      BY <2>1
    <3>2. ~ (At(told, q) < At(told, r)) /\ ~ (At(told, r) < At(told, q)) => q = r
      BY <1>2, <3>1
    <3>3. f[q] = f[r] => At(told, q) = At(told, r)
      BY <1>3, <3>1
    <3> QED
      BY <1>1, <3>1, <3>2, <3>3
  <2> DEFINE named == {f[r] : r \in 1..n}
  <2>3. n \in Nat /\ named = {f[r] : r \in 1..n}
    BY <2>1
  <2> HIDE DEF named
  <2>4. IsFiniteSet(named) /\ Cardinality(named) = n
    BY <2>2, <2>3, NumberedAreCounted
  <2> QED
    BY <2>3, <2>4
<1>8. IsFiniteSet(S) /\ Cardinality(S) = m
  <2>1. m \in 0..m
    BY <1>1
  <2> QED
    BY <1>4, <1>7, <2>1
<1>9. \A x \in S : order[Earlier(S, before, x) + 1] = x
  BY <1>5, <1>8, Sorted
<1>10. ASSUME NEW r \in 1..m PROVE order[r] = f[r]
  <2>1. f[r] \in S
    BY <1>4
  <2>2. {y \in S : <<y, f[r]>> \in before} = {f[q] : q \in 1..(r - 1)}
    <3>1. \A q \in 1..m : f[q] \in S /\ (<<f[q], f[r]>> \in before <=> q < r)
      BY <1>2, <1>3, <1>4, <2>1 DEF StartsBefore
    <3>2. \A q : q \in 1..(r - 1) <=> q \in 1..m /\ q < r
      BY <1>1
    <3> HIDE DEF before
    <3> QED
      BY <1>4, <3>1, <3>2
  <2>3. r - 1 \in 0..m /\ (r - 1) + 1 = r
    BY <1>1
  <2> HIDE DEF before
  <2>4. Earlier(S, before, f[r]) = r - 1
    BY <1>7, <2>2, <2>3 DEF Earlier
  <2> QED
    BY <1>9, <2>1, <2>3, <2>4
<1>11. Len(order) = m /\ \A r \in 1..m : order[r] = MentionAt(a, told, r)
  BY <1>3, <1>5, <1>8, <1>10
<1> QED
  BY <1>11 DEF order, m, t

\* Between a name and its sentence's end is the verb, and nothing else.
LEMMA TemplateIsRead ==
  ASSUME NEW a, NEW told, Template(a, told), NEW r \in 1..Len(Top(a))
  PROVE  DirectionOf(Window(told[Len(Top(a))], Mentions(told[Len(Top(a))]), r))
           = <<SignOf(Top(a)[r].value), "word">>
<1> DEFINE m == Len(Top(a))
           t == told[Len(Top(a))]
           e == EndAt(a, told, r)
           w == Window(t, Mentions(t), r)
<1>1. /\ m \in Nat /\ t \in Seq(Word) /\ Len(t) \in Nat
      /\ e \in Nat /\ e + 2 <= Len(t) /\ t[e + 1] = Verb(Top(a)[r]) /\ t[e + 2] = Stop
      /\ (IF r < m THEN At(told, r + 1) - 1 ELSE Len(t)) = e + 2
  BY SentencesFollow
<1>2. Len(Mentions(t)) = m /\ \A q \in 1..m : Mentions(t)[q] = MentionAt(a, told, q)
  BY TemplateIsInOrder
<1> HIDE DEF m, t, e, w
<1>3. r \in 1..m /\ r \in 1..Len(Mentions(t))
  BY <1>2 DEF m
<1>4. Mentions(t)[r].end = e
  BY <1>2, <1>3 DEF MentionAt, e
<1>5. Bound(t, r) = e + 2
  <2>1. r < m => r + 1 \in 1..m
    BY <1>1, <1>3
  <2>2. r < m => Mentions(t)[r + 1].start = At(told, r + 1)
    BY <1>2, <2>1 DEF MentionAt
  <2> QED
    BY <1>1, <1>2, <2>2 DEF Bound
<1>6. Stops(t, r) = {e + 2}
  <2>1. Stops(t, r) = {p \in (e + 1)..(e + 2) : t[p] = Stop}
    BY <1>4, <1>5 DEF Stops
  <2>2. t[e + 1] # Stop
    BY <1>1 DEF Verb, Stop
  <2>3. \A p : p \in (e + 1)..(e + 2) <=> p = e + 1 \/ p = e + 2
    BY <1>1
  <2>4. e + 1 # e + 2
    BY <1>1
  <2> QED
    BY <1>1, <2>1, <2>2, <2>3, <2>4
<1>7. /\ w \in Seq(Word) /\ Until(t, r) \in 0..Len(t) /\ Until(t, r) + 1 \in Stops(t, r)
      /\ Len(w) = IF e + 1 <= Until(t, r) THEN Until(t, r) - e ELSE 0
      /\ \A j \in 1..Len(w) : w[j] = t[e + j]
  BY <1>1, <1>3, <1>4, <1>6, WindowsAre DEF w
<1>8. Until(t, r) = e + 1
  <2>1. Until(t, r) + 1 = e + 2
    BY <1>6, <1>7
  <2>2. Until(t, r) \in Nat
    BY <1>1, <1>7
  <2> QED
    BY <1>1, <2>1, <2>2
<1>9. Len(w) = 1 /\ w[1] = Verb(Top(a)[r])
  <2>1. Len(w) = 1
    BY <1>1, <1>7, <1>8
  <2>2. 1 \in 1..Len(w)
    BY <2>1
  <2>3. w[1] = t[e + 1]
    BY <1>7, <2>2
  <2> QED
    BY <1>1, <2>1, <2>3
<1> DEFINE cues == DOMAIN Valenced
           p == FirstOf(w, cues)
<1>10. Verb(Top(a)[r]) \in cues /\ Valenced[Verb(Top(a)[r])] = SignOf(Top(a)[r].value)
  BY DEF Verb, Valenced, SignOf, Plus, Minus
<1> HIDE DEF cues
<1>11. Holds(w, cues)
  <2>1. DOMAIN w = 1..Len(w)
    BY <1>7, LenProperties
  <2>2. 1 \in DOMAIN w
    BY <1>9, <2>1
  <2> QED
    BY <1>9, <1>10, <2>2 DEF Holds
<1>12. p = 1
  <2>1. p \in 1..Len(w)
    BY <1>7, <1>11, CuesAreFound
  <2> HIDE DEF p
  <2> QED
    BY <1>9, <2>1
<1>13. DirectionOf(w) = <<Valenced[w[p]], "word">>
  BY <1>11 DEF DirectionOf, cues
<1> QED
  BY <1>9, <1>10, <1>12, <1>13 DEF w, t

\* Claims that say of every feature of an attribution's top its rank and sign.
ReadBack(cs, a) ==
  /\ cs \in Seq(Extracted) /\ Len(cs) = Len(Top(a)) /\ DOMAIN cs = 1..Len(Top(a))
  /\ \A i \in 1..Len(Top(a)) :
       /\ cs[i].feature = Top(a)[i].feature /\ cs[i].rank = i
       /\ cs[i].direction = SignOf(Top(a)[i].value) /\ cs[i].evidence = "word"

LEMMA TemplateIsReadBack ==
  ASSUME NEW a, IsAttribution(a)
  PROVE  ReadBack(RuleAssisted(Rendered(a, NameOf)), a)
<1>1. PICK told \in [0..Len(Top(a)) -> Seq(Word)] : TellsInTurn(a, told)
  BY RenderedInTurn
<1>2. Template(a, told)
  BY <1>1 DEF Template
<1> DEFINE m == Len(Top(a))
           t == told[m]
           cs == RuleAssisted(t)
<1>3. t = Rendered(a, NameOf) /\ t \in Seq(Word)
  BY <1>2, SentencesFollow
<1>4. Len(Mentions(t)) = m /\ \A r \in 1..m : Mentions(t)[r] = MentionAt(a, told, r)
  BY <1>2, TemplateIsInOrder
<1>5. \A r \in 1..m : DirectionOf(Window(t, Mentions(t), r)) = <<SignOf(Top(a)[r].value), "word">>
  BY <1>2, TemplateIsRead
<1> HIDE DEF m, t, cs
<1>6. /\ DOMAIN cs = 1..m /\ Len(cs) = m /\ cs \in Seq(Extracted)
      /\ \A i \in 1..m :
              cs[i] = [feature |-> Mentions(t)[i].feature,
                       direction |-> DirectionOf(Window(t, Mentions(t), i))[1], rank |-> i,
                       magnitude |-> None, evidence |-> DirectionOf(Window(t, Mentions(t), i))[2]]
  BY <1>3, <1>4, RuleClaims DEF cs
<1>7. ASSUME NEW i \in 1..m
      PROVE  /\ cs[i].feature = Top(a)[i].feature /\ cs[i].rank = i
             /\ cs[i].direction = SignOf(Top(a)[i].value) /\ cs[i].evidence = "word"
  <2>1. Mentions(t)[i].feature = Top(a)[i].feature
    BY <1>4 DEF MentionAt
  <2> QED
    BY <1>5, <1>6, <2>1
<1>8. ReadBack(cs, a)
  BY <1>6, <1>7 DEF ReadBack, m
<1> QED
  BY <1>3, <1>8 DEF cs

LEMMA ReadBackPlaces ==
  ASSUME NEW a, IsAttribution(a), NEW cs, ReadBack(cs, a)
  PROVE  LET m == Len(Top(a))
         IN /\ m \in Nat /\ DOMAIN Top(a) = 1..m
            /\ Present(cs, a) = 1..m /\ Asserted(cs, a) = 1..m /\ ArcPairs(cs, a) = 1..m
            /\ Claimed(cs) = FeaturesOf(Top(a)) /\ Cardinality(1..m) = m
<1> DEFINE m == Len(Top(a))
<1>1. m \in Nat /\ DOMAIN Top(a) = 1..m
  BY TopIsAPrefix, RankedIsSorted
<1>2. /\ DOMAIN cs = 1..m
      /\ \A i \in 1..m : /\ cs[i].feature = Top(a)[i].feature /\ cs[i].rank = i
                         /\ cs[i].evidence = "word"
  BY DEF ReadBack
<1> HIDE DEF m
<1>3. \A i \in 1..m : cs[i].feature \in FeaturesOf(Top(a))
  BY <1>1, <1>2 DEF FeaturesOf
<1>4. Present(cs, a) = 1..m
  BY <1>2, <1>3 DEF Present
<1>5. Asserted(cs, a) = 1..m
  BY <1>2, <1>4 DEF Asserted
<1>6. ArcPairs(cs, a) = 1..m
  <2>1. \A i \in 1..m : cs[i].rank # None
    BY <1>1, <1>2, NoneAssumption
  <2> QED
    BY <1>4, <2>1 DEF ArcPairs
<1>7. Claimed(cs) = FeaturesOf(Top(a))
  BY <1>1, <1>2 DEF Claimed, FeaturesOf
<1>8. Cardinality(1..m) = m
  BY <1>1, FS_Interval
<1> QED
  BY <1>1, <1>4, <1>5, <1>6, <1>7, <1>8 DEF m

\* Where the top features stand, in the attribution and in its top.
LEMMA TopRowsAreFound ==
  ASSUME NEW a, IsAttribution(a), NEW r \in 1..Len(Top(a))
  PROVE  /\ RankIn(Top(a), Top(a)[r].feature) = r
         /\ a[RankIn(a, Top(a)[r].feature)] = Top(a)[r]
<1> DEFINE f == Top(a)[r].feature
           n == Len(a)
           p == RankIn(a, f)
           q == RankIn(Top(a), f)
<1>1. /\ n \in Nat /\ DOMAIN a = 1..n /\ Len(Top(a)) \in 0..n /\ DOMAIN Top(a) = 1..Len(Top(a))
  BY TopIsAPrefix, RankedIsSorted
<1>2. Top(a)[r] = Ranked(a)[r]
  BY NamesAre
<1>3. r \in 1..n
  BY <1>1
<1>4. PICK j \in 1..n : Ranked(a)[r] = a[j]
  BY <1>3, RankedIsSorted
<1>5. p = j
  <2>1. \A i \in 1..n : a[i].feature = f => i = j
    <3>1. a[j].feature = f
      BY <1>2, <1>4
    <3> HIDE DEF n, f
    <3>2. \A h, i \in 1..n : a[h].feature = a[i].feature => h = i
      BY <1>1 DEF IsAttribution
    <3> QED
      BY <3>1, <3>2
  <2>2. p \in 1..n /\ a[p].feature = f
    <3> HIDE DEF n, f
    <3>1. p = CHOOSE i \in 1..n : a[i].feature = f
      BY <1>1 DEF RankIn
    <3>2. a[j].feature = f
      BY <1>2, <1>4 DEF f
    <3> HIDE DEF p
    <3> QED
      BY <3>1, <3>2
  <2> QED
    BY <2>1, <2>2
<1>6. q = r
  <2>1. q \in 1..Len(Top(a)) /\ Top(a)[q].feature = f
    <3> HIDE DEF f
    <3>1. q = CHOOSE i \in 1..Len(Top(a)) : Top(a)[i].feature = f
      BY <1>1 DEF RankIn
    <3>2. Top(a)[r].feature = f
      BY DEF f
    <3> HIDE DEF q
    <3> QED
      BY <3>1, <3>2
  <2> HIDE DEF q
  <2> QED
    BY <2>1, NamesDiffer
<1> QED
  BY <1>2, <1>4, <1>5, <1>6

IsOne(m) == m.num = m.den

LEMMA ReadBackIsPrecise ==
  ASSUME NEW a, IsAttribution(a), NEW cs, ReadBack(cs, a)
  PROVE  /\ IsOne(MentionPrecision(cs, a)) /\ IsOne(MentionRecall(cs, a))
         /\ IsOne(DsaAsserted(cs, a))
<1> DEFINE m == Len(Top(a))
<1>1. /\ m \in Nat /\ Present(cs, a) = 1..m /\ Asserted(cs, a) = 1..m
      /\ Claimed(cs) = FeaturesOf(Top(a)) /\ Cardinality(1..m) = m /\ Len(cs) = m
  BY ReadBackPlaces DEF ReadBack
<1> HIDE DEF m
<1>2. IsOne(MentionPrecision(cs, a))
  BY <1>1 DEF MentionPrecision, Fraction, IsOne
<1>3. IsOne(MentionRecall(cs, a))
  <2> DEFINE top == FeaturesOf(Top(a))
  <2>1. top \cap Claimed(cs) = top
    BY <1>1
  <2> HIDE DEF top
  <2>2. MentionRecall(cs, a) = [num |-> Cardinality(top), den |-> Cardinality(top)]
    BY <2>1 DEF MentionRecall, Fraction, top
  <2> QED
    BY <2>2 DEF IsOne
<1>4. IsOne(DsaAsserted(cs, a))
  <2>1. ASSUME NEW i \in 1..m PROVE Agrees(cs[i], a)
    <3>1. cs[i].feature = Top(a)[i].feature /\ cs[i].direction = SignOf(Top(a)[i].value)
      BY DEF ReadBack, m
    <3>2. a[RankIn(a, Top(a)[i].feature)] = Top(a)[i]
      BY TopRowsAreFound DEF m
    <3> QED
      BY <3>1, <3>2 DEF Agrees
  <2>2. {i \in 1..m : Agrees(cs[i], a)} = 1..m
    BY <2>1
  <2>3. DsaAsserted(cs, a) = AgreeingOf(1..m, cs, a)
    BY <1>1 DEF DsaAsserted
  <2>4. AgreeingOf(1..m, cs, a)
          = [num |-> Cardinality({i \in 1..m : Agrees(cs[i], a)}), den |-> Cardinality(1..m)]
    BY DEF AgreeingOf, Fraction
  <2>5. DsaAsserted(cs, a) = [num |-> Cardinality(1..m), den |-> Cardinality(1..m)]
    BY <2>2, <2>3, <2>4
  <2> QED
    BY <2>5 DEF IsOne
<1> QED
  BY <1>2, <1>3, <1>4

LEMMA ReadBackIsInOrder ==
  ASSUME NEW a, IsAttribution(a), NEW cs, ReadBack(cs, a)
  PROVE  IsOne(Arc(cs, a))
<1> DEFINE m == Len(Top(a))
           pairs == ArcPairs(cs, a)
           top == Top(a)
           said == [i \in pairs |-> cs[i].rank]
           real == [i \in pairs |-> RankIn(top, cs[i].feature)]
           n == Cardinality(pairs)
           Off(i) == Position(said, i) - Position(real, i)
           squares == [i \in DOMAIN cs |-> IF i \in pairs THEN Off(i) * Off(i) ELSE 0]
           sum == SumTo(squares, Len(cs))
<1>1. /\ m \in Nat /\ pairs = 1..m /\ n = m /\ Len(cs) = m /\ DOMAIN cs = 1..m
  BY ReadBackPlaces DEF ReadBack
<1>2. Arc(cs, a) = IF n < 2 THEN Fraction(0, 0)
                   ELSE Fraction(n * (n * n - 1) - 6 * sum, n * (n * n - 1))
  BY DEF Arc
<1>3. \A i \in 1..m : cs[i].rank = i /\ RankIn(top, cs[i].feature) = i
  BY TopRowsAreFound DEF ReadBack
<1> HIDE DEF m, pairs, top, n
<1>4. said = real
  BY <1>1, <1>3
<1>5. ASSUME NEW i \in 1..m PROVE Off(i) = 0
  <2> DEFINE P == {j \in DOMAIN said : said[j] < said[i] \/ (said[j] = said[i] /\ j < i)}
  <2>1. P \subseteq 1..m /\ Position(said, i) = Cardinality(P)
    BY <1>1 DEF Position
  <2> HIDE DEF P, said, real
  <2>2. Position(said, i) \in Nat
    BY <1>1, <2>1, PlacesAreCounted
  <2> QED
    BY <1>4, <2>2
<1>6. squares = [i \in 1..m |-> 0]
  <2> HIDE DEF Off
  <2> QED
    BY <1>1, <1>5
<1>7. sum = 0
  <2>1. squares \in [1..m -> Int] /\ \A k \in 1..m : squares[k] = 0
    <3> HIDE DEF squares
    <3> QED
      BY <1>6
  <2> HIDE DEF squares
  <2> QED
    BY <1>1, <2>1, SumsAreIntegers
<1> HIDE DEF sum
<1>8. CASE n < 2
  BY <1>2, <1>8 DEF Fraction, IsOne
<1>9. CASE ~(n < 2)
  <2> DEFINE cube == n * (n * n - 1)
  <2>1. cube \in Nat
    BY <1>1, <1>9, Cubes
  <2>2. Arc(cs, a) = [num |-> cube - 6 * sum, den |-> cube]
    BY <1>2, <1>9 DEF Fraction
  <2> HIDE DEF cube
  <2> QED
    BY <1>7, <2>1, <2>2 DEF IsOne
<1> QED
  BY <1>8, <1>9

LEMMA ReadBackCites ==
  ASSUME NEW a, IsAttribution(a), NEW cs, ReadBack(cs, a), NEW k \in DOMAIN Top(a)
  PROVE  Cited(cs, Vocabulary, k) = FeaturesOf(SubSeq(Top(a), 1, k))
<1> DEFINE m == Least(TopK, Len(a))
<1>1. /\ Top(a) \in Seq(Row) /\ Len(Top(a)) = m /\ k \in 1..m
      /\ \A i \in 1..m : Top(a)[i] = Ranked(a)[i]
      /\ Ranked(a) \in Seq(Row) /\ Len(Ranked(a)) = Len(a) /\ Len(a) \in Nat
      /\ m \in 0..Len(a) /\ TopK \in Nat
  BY TopIsAPrefix, RankedIsSorted, TopKAssumption
<1>2. DOMAIN cs = 1..m /\ \A i \in 1..m : cs[i].feature = Ranked(a)[i].feature /\ cs[i].rank = i
  BY <1>1 DEF ReadBack
<1>3. k \in 1..TopK
  BY <1>1 DEF Least
<1>4. Cited(cs, Vocabulary, k) = FeaturesOf(SubSeq(Ranked(a), 1, Least(k, Len(a))))
  BY <1>2, <1>3, RankedClaimsCite
<1> HIDE DEF m
<1>5. Least(k, Len(a)) = k /\ k \in 0..Len(a) /\ k \in 0..m
  BY <1>1 DEF Least
<1>6. FeaturesOf(SubSeq(Ranked(a), 1, k)) = {Ranked(a)[i].feature : i \in 1..k}
  BY <1>1, <1>5, FirstFeatures
<1>7. FeaturesOf(SubSeq(Top(a), 1, k)) = {Top(a)[i].feature : i \in 1..k}
  BY <1>1, <1>5, FirstFeatures
<1>8. \A i \in 1..k : Top(a)[i] = Ranked(a)[i]
  BY <1>1, <1>5
<1>9. {Top(a)[i].feature : i \in 1..k} = {Ranked(a)[i].feature : i \in 1..k}
  BY <1>8
<1> QED
  BY <1>4, <1>5, <1>6, <1>7, <1>9

\* What B1 tells of any attribution, in any vocabulary, is read back by the rule
\* engine as what B1 asserts, and is scored as perfect.
THEOREM TemplateReadsBack == ClaimsSpec => []TemplateRoundTrips
<1>1. ASSUME ClaimsInductive, ByRule, narrator = "b1" PROVE TemplateRoundTrips
  <2> DEFINE told == FaithfulClaims(attribution)
             top == Top(attribution)
  <2>1. /\ IsAttribution(attribution) /\ claims = Extract(text, reply)
        /\ LastLlmParsed(reply) = TRUE <=> reply \notin {None, Unparsed}
    BY <1>1, ReadClaims DEF ByRule
  <2>2. text = Rendered(attribution, NameOf)
    BY <1>1 DEF ClaimsInductive
  <2>3. claims = RuleAssisted(Rendered(attribution, NameOf))
    BY <1>1, <2>1, <2>2 DEF ByRule, Extract
  <2>4. ReadBack(claims, attribution)
    BY <2>1, <2>3, TemplateIsReadBack
  <2>5. /\ IsOne(MentionPrecision(claims, attribution))
        /\ IsOne(MentionRecall(claims, attribution))
        /\ IsOne(DsaAsserted(claims, attribution))
        /\ IsOne(Arc(claims, attribution))
        /\ \A k \in DOMAIN top :
             Cited(claims, Vocabulary, k) = FeaturesOf(SubSeq(top, 1, k))
    BY <2>1, <2>4, ReadBackIsPrecise, ReadBackIsInOrder, ReadBackCites
  <2>6. /\ Len(told) = Len(top) /\ DOMAIN told = 1..Len(top)
        /\ \A i \in 1..Len(top) :
             /\ told[i].feature = top[i].feature /\ told[i].rank = i
             /\ told[i].direction = SignOf(top[i].value)
    <3>1. /\ Len(told) = Len(top) /\ DOMAIN told = 1..Len(top)
          /\ \A i \in 1..Len(top) :
               told[i] = [feature |-> Ranked(attribution)[i].feature,
                          direction |-> SignOf(Ranked(attribution)[i].value), rank |-> i,
                          magnitude |-> Abs(Ranked(attribution)[i].value), evidence |-> None]
      BY <2>1, FaithfulClaimsOf, TopIsAPrefix
    <3>2. \A i \in 1..Len(top) : top[i] = Ranked(attribution)[i]
      BY <2>1, NamesAre
    <3> HIDE DEF told, top
    <3> QED
      BY <3>1, <3>2
  <2>7. /\ Len(claims) = Len(told)
        /\ \A i \in DOMAIN told :
             /\ claims[i].feature = told[i].feature /\ claims[i].rank = told[i].rank
             /\ claims[i].direction = told[i].direction
    <3> HIDE DEF told
    <3> QED
      BY <2>4, <2>6 DEF ReadBack
  <2> QED
    BY <2>5, <2>7 DEF TemplateRoundTrips, IsOne
<1>2. ClaimsInductive => TemplateRoundTrips
  BY <1>1 DEF TemplateRoundTrips
<1> QED
  BY <1>2, ClaimsInvariance, PTL

(***************************************************************************)
(* The registered battery.                                                 *)
(***************************************************************************)
\* The places of the claims about a top feature, row saying which or 0.
Placing(row) == {i \in DOMAIN row : row[i] # 0}

\* Those with the direction attributed.
Agreeing(cs, row, a) ==
  {i \in Placing(row) : cs[i].direction = SignOf(Top(a)[row[i]].value)}

\* Claims of the top five features and of features that there are none of.
Shaped(cs, n, row, a) ==
  /\ n \in Nat /\ row \in [1..n -> 0..5] /\ DOMAIN cs = 1..n /\ Len(cs) = n /\ IsList(cs)
  /\ \A i, j \in Placing(row) : row[i] = row[j] => i = j
  /\ \A i \in Placing(row) : /\ cs[i].feature = Top(a)[row[i]].feature
                             /\ cs[i].rank \in Nat
  /\ \A i \in 1..n : row[i] = 0 => cs[i].feature \notin Vocabulary
  /\ \A i \in 1..n : cs[i].evidence = None

\* An attribution of five features or more.
Wide(a) == IsAttribution(a) /\ Len(a) >= 5 /\ TopK = 5

LEMMA FiveAreTop ==
  ASSUME NEW a, Wide(a)
  PROVE  /\ Least(TopK, Len(a)) = 5 /\ Len(Top(a)) = 5 /\ DOMAIN Top(a) = 1..5
         /\ \A r \in 1..5 : Top(a)[r] \in Row /\ Top(a)[r] = Ranked(a)[r]
         /\ \A r \in 1..5 : Top(a)[r].feature \in Vocabulary
         /\ \A q, r \in 1..5 : Top(a)[q].feature = Top(a)[r].feature => q = r
         /\ FeaturesOf(Top(a)) = {Top(a)[r].feature : r \in 1..5}
<1>1. Len(a) \in Nat /\ Least(TopK, Len(a)) = 5
  <2>1. Len(a) \in Nat /\ Len(a) >= 5 /\ TopK = 5
    BY RankedIsSorted DEF Wide
  <2> DEFINE n == Len(a)
  <2> HIDE DEF n
  <2>2. n \in Nat /\ n >= 5
    BY <2>1 DEF n
  <2>3. ~ (5 < n) => n = 5
    BY <2>2
  <2>4. (IF 5 < n THEN 5 ELSE n) = 5
    BY <2>3
  <2>5. Least(TopK, n) = 5
    BY <2>1, <2>4 DEF Least
  <2> QED
    BY <2>1, <2>5 DEF n
<1>2. /\ Len(Top(a)) = 5 /\ DOMAIN Top(a) = 1..5
      /\ \A r \in 1..5 : Top(a)[r] \in Row /\ Top(a)[r] = Ranked(a)[r]
  BY <1>1, TopIsAPrefix DEF Wide
<1>3. \A r \in 1..5 : Top(a)[r].feature \in Vocabulary
  <2> HIDE DEF Vocabulary
  <2> QED
    BY <1>2 DEF Row
<1>4. \A q, r \in 1..5 : Top(a)[q].feature = Top(a)[r].feature => q = r
  BY <1>2, NamesDiffer DEF Wide
<1>5. FeaturesOf(Top(a)) = {Top(a)[r].feature : r \in 1..5}
  BY <1>2 DEF FeaturesOf
<1> QED
  BY <1>1, <1>2, <1>3, <1>4, <1>5

\* The row of a claim about a top feature.
LEMMA ShapedRowsAreFound ==
  ASSUME NEW a, Wide(a), NEW cs, NEW n, NEW row, Shaped(cs, n, row, a),
         NEW i \in Placing(row)
  PROVE  /\ RankIn(Top(a), cs[i].feature) = row[i]
         /\ a[RankIn(a, cs[i].feature)] = Top(a)[row[i]]
<1>1. row[i] \in 1..5 /\ cs[i].feature = Top(a)[row[i]].feature
  BY DEF Shaped, Placing
<1>2. Len(Top(a)) = 5 /\ IsAttribution(a)
  BY FiveAreTop DEF Wide
<1>3. row[i] \in 1..Len(Top(a))
  BY <1>1, <1>2
<1>4. /\ RankIn(Top(a), Top(a)[row[i]].feature) = row[i]
      /\ a[RankIn(a, Top(a)[row[i]].feature)] = Top(a)[row[i]]
  BY <1>2, <1>3, TopRowsAreFound
<1> QED
  BY <1>1, <1>4

\* Such claims are measured by where they stand.
Measured(cs, n, row, a) ==
  /\ Placing(row) \subseteq 1..n
  /\ ArcPairs(cs, a) = Placing(row)
  /\ MentionPrecision(cs, a) = [num |-> Cardinality(Placing(row)), den |-> n]
  /\ MentionRecall(cs, a) = [num |-> Cardinality(Placing(row)), den |-> 5]
  /\ Hfr(cs, a) = [num |-> Cardinality(1..n \ Placing(row)), den |-> n]
  /\ DsaAsserted(cs, a) = [num |-> Cardinality(Agreeing(cs, row, a)),
                           den |-> Cardinality(Placing(row))]

LEMMA ShapedClaimsAreMeasured ==
  ASSUME NEW a, Wide(a), NEW cs, NEW n, NEW row, Shaped(cs, n, row, a)
  PROVE  Measured(cs, n, row, a)
<1> DEFINE P == Placing(row)
           agreeing == Agreeing(cs, row, a)
           top == FeaturesOf(Top(a))
<1>1. /\ n \in Nat /\ row \in [1..n -> 0..5] /\ DOMAIN cs = 1..n /\ Len(cs) = n
      /\ \A i, j \in P : row[i] = row[j] => i = j
      /\ \A i \in P : cs[i].feature = Top(a)[row[i]].feature /\ cs[i].rank \in Nat
      /\ \A i \in 1..n : row[i] = 0 => cs[i].feature \notin Vocabulary
      /\ \A i \in 1..n : cs[i].evidence = None
  BY DEF Shaped
<1>2. /\ Len(Top(a)) = 5
      /\ \A r \in 1..5 : Top(a)[r].feature \in Vocabulary
      /\ \A q, r \in 1..5 : Top(a)[q].feature = Top(a)[r].feature => q = r
      /\ top = {Top(a)[r].feature : r \in 1..5}
  BY FiveAreTop
<1>3. /\ P \subseteq 1..n /\ \A i \in P : row[i] \in 1..5
      /\ \A i \in 1..n : i \notin P => row[i] = 0
  BY <1>1 DEF Placing
<1>4. IsAttribution(a) /\ FeaturesOf(a) = Vocabulary
  BY AttributionsName DEF Wide
<1> HIDE DEF P, top, Vocabulary
<1>5. \A i \in 1..n : cs[i].feature \in top <=> i \in P
  <2> TAKE i \in 1..n
  <2>1. i \in P => cs[i].feature \in top
    BY <1>1, <1>2, <1>3
  <2>2. cs[i].feature \in top => cs[i].feature \in Vocabulary
    BY <1>2
  <2> QED
    BY <1>1, <1>3, <2>1, <2>2
<1>6. Present(cs, a) = P
  BY <1>1, <1>3, <1>5 DEF Present, top
<1>7. Asserted(cs, a) = P
  BY <1>1, <1>3, <1>6, NoneAssumption DEF Asserted
<1>8. ArcPairs(cs, a) = P
  <2>1. \A i \in P : cs[i].rank # None
    BY <1>1, NoneAssumption
  <2> QED
    BY <1>6, <2>1 DEF ArcPairs
<1>9. ASSUME NEW i \in P
      PROVE  Agrees(cs[i], a) <=> i \in agreeing
  <2>1. a[RankIn(a, cs[i].feature)] = Top(a)[row[i]]
    BY ShapedRowsAreFound DEF P
  <2> QED
    BY <2>1 DEF Agrees, Agreeing, P
<1>10. {i \in P : Agrees(cs[i], a)} = agreeing
  BY <1>9 DEF Agreeing, P
<1>11. top \cap Claimed(cs) = {cs[i].feature : i \in P}
  BY <1>1, <1>3, <1>5 DEF Claimed
<1>12. Cardinality(top) = 5
  <2> DEFINE five == 5
             f == [r \in 1..five |-> Top(a)[r].feature]
  <2>1. f \in Bijection(1..five, top)
    <3>1. f \in [1..five -> top] /\ \A s \in top : \E r \in 1..five : f[r] = s
      BY <1>2
    <3>2. \A q, r \in 1..five : f[q] = f[r] => q = r
      BY <1>2
    <3> HIDE DEF f, five
    <3> QED
      BY <3>1, <3>2 DEF Bijection, Injection, Surjection, IsInjective
  <2>2. five \in Nat
    OBVIOUS
  <2> HIDE DEF f, five
  <2>3. ExistsBijection(1..five, top)
    BY <2>1 DEF ExistsBijection
  <2>4. IsFiniteSet(1..five) /\ Cardinality(1..five) = five
    BY <2>2, FS_Interval
  <2>5. Cardinality(top) = five
    BY <2>3, <2>4, FS_Bijection
  <2> QED
    BY <2>5 DEF five
<1>13. Cardinality({cs[i].feature : i \in P}) = Cardinality(P)
  <2> DEFINE S == {cs[i].feature : i \in P}
             g == [i \in P |-> cs[i].feature]
  <2>1. \A i, j \in P : cs[i].feature = cs[j].feature => i = j
    BY <1>1, <1>2, <1>3, SMTT(30)
  <2>2. g \in Bijection(P, S)
    <3>1. g \in [P -> S] /\ \A s \in S : \E i \in P : g[i] = s
      OBVIOUS
    <3>2. \A i, j \in P : g[i] = g[j] => i = j
      BY <2>1
    <3> HIDE DEF g, S
    <3> QED
      BY <3>1, <3>2 DEF Bijection, Injection, Surjection, IsInjective
  <2> HIDE DEF S, g
  <2>3. IsFiniteSet(P)
    BY <1>1, <1>3, PlacesAreCounted
  <2>4. ExistsBijection(P, S)
    BY <2>2 DEF ExistsBijection
  <2>5. Cardinality(S) = Cardinality(P)
    BY <2>3, <2>4, FS_Bijection
  <2> QED
    BY <2>5 DEF S
<1>14. {i \in DOMAIN cs : cs[i].feature \notin FeaturesOf(a)} = 1..n \ P
  <2>1. \A i \in P : cs[i].feature \in Vocabulary
    BY <1>1, <1>2, <1>3
  <2> QED
    BY <1>1, <1>3, <1>4, <2>1
<1> HIDE DEF agreeing
<1>15. MentionPrecision(cs, a) = [num |-> Cardinality(P), den |-> n]
  BY <1>1, <1>6 DEF MentionPrecision, Fraction
<1>16. MentionRecall(cs, a) = [num |-> Cardinality(P), den |-> 5]
  BY <1>11, <1>12, <1>13 DEF MentionRecall, Fraction, top
<1>17. Hfr(cs, a) = [num |-> Cardinality(1..n \ P), den |-> n]
  BY <1>1, <1>14 DEF Hfr, Fraction
<1>18. DsaAsserted(cs, a) = [num |-> Cardinality(agreeing), den |-> Cardinality(P)]
  BY <1>7, <1>10 DEF DsaAsserted, AgreeingOf, Fraction
<1> QED
  BY <1>3, <1>8, <1>15, <1>16, <1>17, <1>18 DEF Measured, P, agreeing

\* Ranks in the order of the rows correlate in full.
LEMMA OrderedClaimsCorrelate ==
  ASSUME NEW a, Wide(a), NEW cs, NEW n, NEW row, Shaped(cs, n, row, a),
         \A i \in Placing(row) : cs[i].rank = row[i],
         NEW size, size = Cardinality(Placing(row)), size >= 2
  PROVE  Arc(cs, a) = [num |-> size * (size * size - 1), den |-> size * (size * size - 1)]
<1> DEFINE pairs == ArcPairs(cs, a)
           top == Top(a)
           said == [i \in pairs |-> cs[i].rank]
           real == [i \in pairs |-> RankIn(top, cs[i].feature)]
           k == Cardinality(pairs)
           Off(i) == Position(said, i) - Position(real, i)
           squares == [i \in DOMAIN cs |-> IF i \in pairs THEN Off(i) * Off(i) ELSE 0]
           sum == SumTo(squares, Len(cs))
<1>1. /\ n \in Nat /\ Len(cs) = n /\ DOMAIN cs = 1..n
  BY DEF Shaped
<1>2. /\ pairs = Placing(row) /\ pairs \subseteq 1..n
      /\ \A i \in pairs : RankIn(top, cs[i].feature) = row[i]
  <2>1. /\ ArcPairs(cs, a) = Placing(row) /\ Placing(row) \subseteq 1..n
        /\ \A i \in Placing(row) : RankIn(Top(a), cs[i].feature) = row[i]
    <3>1. ArcPairs(cs, a) = Placing(row)
      BY ShapedClaimsAreMeasured DEF Measured
    <3>2. Placing(row) \subseteq 1..n
      BY ShapedClaimsAreMeasured DEF Measured
    <3>3. ASSUME NEW i \in Placing(row) PROVE RankIn(Top(a), cs[i].feature) = row[i]
      BY ShapedRowsAreFound
    <3> QED
      BY <3>1, <3>2, <3>3
  <2> QED
    BY <2>1
<1>3. Arc(cs, a) = IF k < 2 THEN Fraction(0, 0)
                   ELSE Fraction(k * (k * k - 1) - 6 * sum, k * (k * k - 1))
  BY DEF Arc
<1> HIDE DEF pairs, top, k
<1>4. said = real
  BY <1>2
<1>5. k \in Nat
  BY <1>1, <1>2, PlacesAreCounted DEF k
<1>6. ASSUME NEW i \in 1..n PROVE Off(i) = 0
  <2> DEFINE Q == {j \in DOMAIN said : said[j] < said[i] \/ (said[j] = said[i] /\ j < i)}
  <2>1. Q \subseteq 1..n /\ Position(said, i) = Cardinality(Q)
    BY <1>2 DEF Position
  <2> HIDE DEF Q, said, real
  <2>2. Position(said, i) \in Nat
    BY <1>1, <2>1, PlacesAreCounted
  <2> QED
    BY <1>4, <2>2
<1>7. squares = [i \in 1..n |-> 0]
  <2> HIDE DEF Off
  <2> QED
    BY <1>1, <1>6
<1>8. sum = 0
  <2>1. squares \in [1..n -> Int] /\ \A j \in 1..n : squares[j] = 0
    <3> HIDE DEF squares
    <3> QED
      BY <1>7
  <2> HIDE DEF squares
  <2> QED
    BY <1>1, <2>1, SumsAreIntegers
<1> HIDE DEF sum
<1>9. k >= 2 /\ k = size
  BY <1>2 DEF k
<1> DEFINE cube == k * (k * k - 1)
<1>10. cube \in Nat
  BY <1>5, <1>9, Cubes
<1>11. Arc(cs, a) = [num |-> cube - 6 * sum, den |-> cube]
  BY <1>3, <1>5, <1>9 DEF Fraction
<1> HIDE DEF cube
<1>12. cube - 6 * sum = cube
  BY <1>8, <1>10
<1>13. cube = size * (size * size - 1)
  BY <1>9 DEF cube
<1> QED
  BY <1>11, <1>12, <1>13

\* One of n places left out.
LEMMA AllButOne ==
  ASSUME NEW n \in Nat, NEW x \in 1..n
  PROVE  Cardinality(1..n) = n /\ Cardinality((1..n) \ {x}) = n - 1
<1>1. IsFiniteSet(1..n) /\ Cardinality(1..n) = n
  BY FS_Interval
<1>2. Cardinality((1..n) \ {x}) = Cardinality(1..n) - 1
  BY <1>1, FS_RemoveElement
<1> QED
  BY <1>1, <1>2

LEMMA FiveFourSix ==
  /\ IsFiniteSet(1..5)
  /\ Cardinality(1..5) = 5 /\ Cardinality(1..4) = 4
  /\ \A x \in 1..5 : Cardinality((1..5) \ {x}) = 4
  /\ Cardinality((1..6) \ {6}) = 5
<1> DEFINE four == 4  five == 5  six == 6
<1>1. four \in Nat /\ five \in Nat /\ six \in Nat /\ six \in 1..six /\ 1 \in 1..four
  OBVIOUS
<1>2. five - 1 = 4 /\ six - 1 = 5
  OBVIOUS
<1> HIDE DEF four, five, six
<1>3. Cardinality(1..four) = four
  BY <1>1, AllButOne
<1>4. \A x \in 1..five : Cardinality(1..five) = five /\ Cardinality((1..five) \ {x}) = five - 1
  BY <1>1, AllButOne
<1>5. Cardinality((1..six) \ {six}) = six - 1
  BY <1>1, AllButOne
<1>6. 1 \in 1..five
  BY DEF five
<1>7. IsFiniteSet(1..five) /\ Cardinality(1..five) = five
  BY <1>1, <1>4, <1>6, FS_Interval
<1>8. \A x \in 1..five : Cardinality((1..five) \ {x}) = 4
  BY <1>2, <1>4
<1>9. Cardinality((1..six) \ {six}) = 5
  BY <1>2, <1>5
<1> QED
  BY <1>3, <1>7, <1>8, <1>9 DEF four, five, six

\* The metrics of k claims about top features out of n, g of which agree.
LEMMA ShapedClaimsScore ==
  ASSUME NEW a, Wide(a), NEW cs, NEW n, NEW row, Shaped(cs, n, row, a),
         NEW k, Cardinality(Placing(row)) = k, NEW g, Cardinality(Agreeing(cs, row, a)) = g
  PROVE  /\ MentionPrecision(cs, a) = [num |-> k, den |-> n]
         /\ MentionRecall(cs, a) = [num |-> k, den |-> 5]
         /\ Hfr(cs, a) = [num |-> n - k, den |-> n]
         /\ DsaAsserted(cs, a) = [num |-> g, den |-> k]
<1> DEFINE P == Placing(row)
<1>1. n \in Nat
  BY DEF Shaped
<1>2. /\ P \subseteq 1..n
      /\ MentionPrecision(cs, a) = [num |-> Cardinality(P), den |-> n]
      /\ MentionRecall(cs, a) = [num |-> Cardinality(P), den |-> 5]
      /\ Hfr(cs, a) = [num |-> Cardinality(1..n \ P), den |-> n]
      /\ DsaAsserted(cs, a) = [num |-> Cardinality(Agreeing(cs, row, a)),
                               den |-> Cardinality(P)]
  <2>1. Measured(cs, n, row, a)
    BY ShapedClaimsAreMeasured
  <2> QED
    BY <2>1 DEF Measured
<1> HIDE DEF P
<1>3. IsFiniteSet(1..n) /\ Cardinality(1..n) = n
  BY <1>1, FS_Interval
<1>4. (1..n) \cap P = P
  BY <1>2
<1>5. Cardinality(P) = k
  BY DEF P
<1>6. Cardinality((1..n) \ P) = Cardinality(1..n) - Cardinality((1..n) \cap P)
  BY <1>3, FS_Difference
<1>7. Cardinality((1..n) \ P) = n - k
  BY <1>3, <1>4, <1>5, <1>6
<1> QED
  BY <1>2, <1>5, <1>7

\* B1's claims of a wide attribution.
LEMMA FiveAreTold ==
  ASSUME NEW a, Wide(a)
  PROVE  /\ IsList(FaithfulClaims(a)) /\ Len(FaithfulClaims(a)) = 5
         /\ DOMAIN FaithfulClaims(a) = 1..5
         /\ \A i \in 1..5 :
              FaithfulClaims(a)[i] = [feature |-> Top(a)[i].feature,
                                      direction |-> SignOf(Top(a)[i].value), rank |-> i,
                                      magnitude |-> Abs(Top(a)[i].value), evidence |-> None]
<1>1. IsAttribution(a)
  BY DEF Wide
<1>2. Least(TopK, Len(a)) = 5 /\ \A i \in 1..5 : Top(a)[i] = Ranked(a)[i]
  BY FiveAreTop
<1> DEFINE five == 5
<1> HIDE DEF five
<1>3. /\ IsList(FaithfulClaims(a)) /\ Len(FaithfulClaims(a)) = five
      /\ DOMAIN FaithfulClaims(a) = 1..five
      /\ \A i \in 1..five :
           FaithfulClaims(a)[i] = [feature |-> Ranked(a)[i].feature,
                                   direction |-> SignOf(Ranked(a)[i].value), rank |-> i,
                                   magnitude |-> Abs(Ranked(a)[i].value), evidence |-> None]
  BY <1>1, <1>2, FaithfulClaimsOf DEF five
<1> QED
  BY <1>2, <1>3 DEF five

InPlace(n) == [i \in 1..n |-> i]

\* What a variant of B1's claims scores under the metrics designated.
Outcome(cs, a, precision, recall, directions, ranks, strangers) ==
  /\ Scaled(MentionPrecision(cs, a)) = precision /\ Scaled(MentionRecall(cs, a)) = recall
  /\ Scaled(DsaAsserted(cs, a)) = directions /\ Scaled(Arc(cs, a)) = ranks
  /\ Scaled(Hfr(cs, a)) = strangers

\* Claims ranked in the order of their rows are charged by how many they are.
LEMMA OrderedOutcome ==
  ASSUME NEW a, Wide(a), Scale = 120, NEW cs, NEW n \in 1..6, NEW row, Shaped(cs, n, row, a),
         \A i \in Placing(row) : cs[i].rank = row[i],
         NEW size \in 4..5, Cardinality(Placing(row)) = size,
         NEW g \in 1..5, Cardinality(Agreeing(cs, row, a)) = g
  PROVE  Outcome(cs, a, (120 * size) \div n, (120 * size) \div 5, (120 * g) \div size,
                 120, (120 * (n - size)) \div n)
<1>1. /\ MentionPrecision(cs, a) = [num |-> size, den |-> n]
      /\ MentionRecall(cs, a) = [num |-> size, den |-> 5]
      /\ Hfr(cs, a) = [num |-> n - size, den |-> n]
      /\ DsaAsserted(cs, a) = [num |-> g, den |-> size]
  BY ShapedClaimsScore
<1>2. Arc(cs, a) = [num |-> size * (size * size - 1), den |-> size * (size * size - 1)]
  <2>1. size >= 2
    OBVIOUS
  <2> QED
    BY <2>1, OrderedClaimsCorrelate
<1>3. Scaled(Arc(cs, a)) = 120
  <2>1. CASE size = 4
    <3>1. Arc(cs, a) = [num |-> 60, den |-> 60]
      BY <1>2, <2>1
    <3> QED
      BY <3>1 DEF Scaled
  <2>2. CASE size = 5
    <3>1. Arc(cs, a) = [num |-> 120, den |-> 120]
      BY <1>2, <2>2
    <3> QED
      BY <3>1 DEF Scaled
  <2> QED
    BY <2>1, <2>2
<1>4. n # 0 /\ size # 0
  OBVIOUS
<1>5. /\ Scaled(MentionPrecision(cs, a)) = (120 * size) \div n
      /\ Scaled(MentionRecall(cs, a)) = (120 * size) \div 5
      /\ Scaled(DsaAsserted(cs, a)) = (120 * g) \div size
      /\ Scaled(Hfr(cs, a)) = (120 * (n - size)) \div n
  BY <1>1, <1>4 DEF Scaled
<1> QED
  BY <1>3, <1>5 DEF Outcome

LEMMA FaithfulOutcome ==
  ASSUME NEW a, Wide(a), Scale = 120
  PROVE  Outcome(FaithfulClaims(a), a, 120, 120, 120, 120, 0)
<1> DEFINE cs == FaithfulClaims(a)
           row == InPlace(5)
           five == 5
<1>1. /\ IsList(cs) /\ Len(cs) = 5 /\ DOMAIN cs = 1..5
      /\ \A i \in 1..5 : cs[i] = [feature |-> Top(a)[i].feature,
                                  direction |-> SignOf(Top(a)[i].value), rank |-> i,
                                  magnitude |-> Abs(Top(a)[i].value), evidence |-> None]
  BY FiveAreTold
<1>2. Placing(row) = 1..5 /\ row \in [1..5 -> 0..5] /\ \A i \in 1..5 : row[i] = i
  BY DEF InPlace, Placing
<1> HIDE DEF cs, row
<1>3. Shaped(cs, 5, row, a)
  BY <1>1, <1>2 DEF Shaped
<1>4. Agreeing(cs, row, a) = 1..5
  BY <1>1, <1>2 DEF Agreeing
<1>5. Cardinality(1..5) = 5
  BY FiveFourSix
<1>6. /\ Shaped(cs, five, row, a) /\ Cardinality(Placing(row)) = five
      /\ Cardinality(Agreeing(cs, row, a)) = five
      /\ five \in 1..6 /\ five \in 4..5 /\ five \in 1..5
      /\ \A i \in Placing(row) : cs[i].rank = row[i]
  BY <1>1, <1>2, <1>3, <1>4, <1>5
<1> HIDE DEF five
<1>7. Outcome(cs, a, (120 * five) \div five, (120 * five) \div 5, (120 * five) \div five,
              120, (120 * (five - five)) \div five)
  BY <1>6, OrderedOutcome
<1>8. /\ (120 * five) \div five = 120 /\ (120 * five) \div 5 = 120
      /\ (120 * (five - five)) \div five = 0
  BY DEF five
<1> QED
  BY <1>7, <1>8 DEF cs

\* What the operators make up is in no vocabulary.
Unknown == {"FABRICATED_FEATURE", "an unspecified traffic feature"} \cap Vocabulary = {}

LEMMA FabricatedOutcome ==
  ASSUME NEW a, Wide(a), Scale = 120, Unknown
  PROVE  Outcome(FabricatedFeature(FaithfulClaims(a)), a, 100, 120, 120, 120, 20)
<1> DEFINE told == FaithfulClaims(a)
           cs == FabricatedFeature(told)
           row == [i \in 1..6 |-> IF i = 6 THEN 0 ELSE i]
           size == 5
           n == 6
<1>1. /\ IsList(told) /\ Len(told) = 5 /\ DOMAIN told = 1..5
      /\ \A i \in 1..5 : told[i] = [feature |-> Top(a)[i].feature,
                                    direction |-> SignOf(Top(a)[i].value), rank |-> i,
                                    magnitude |-> Abs(Top(a)[i].value), evidence |-> None]
  BY FiveAreTold
<1> HIDE DEF told
<1>2. PICK e : cs = Append(told, e) /\ e.feature = "FABRICATED_FEATURE" /\ e.evidence = None
  <2> DEFINE made == MakeClaim("FABRICATED_FEATURE", Plus,
                1 + Max({0} \cup ({told[i].rank : i \in DOMAIN told} \ {None})), None, None)
  <2>1. cs = Append(told, made)
    BY DEF FabricatedFeature
  <2>2. made.feature = "FABRICATED_FEATURE" /\ made.evidence = None
    BY DEF MakeClaim
  <2> HIDE DEF cs, made
  <2> QED
    BY <2>1, <2>2
<1> HIDE DEF cs
<1>3. /\ IsList(cs) /\ Len(cs) = 6 /\ DOMAIN cs = 1..6 /\ cs[6] = e
      /\ \A i \in 1..5 : cs[i] = told[i]
  <2>1. told \in Seq(Range(told) \cup {e})
    BY <1>1, ListsHaveLengths, SeqMonotonic
  <2>2. /\ cs \in Seq(Range(told) \cup {e}) /\ Len(cs) = Len(told) + 1
        /\ \A i \in 1..Len(told) : cs[i] = told[i]
        /\ cs[Len(told) + 1] = e
    BY <1>2, <2>1, AppendProperties
  <2>3. Len(cs) = 6 /\ cs[6] = e /\ \A i \in 1..5 : cs[i] = told[i]
    BY <1>1, <2>2
  <2> QED
    BY <2>2, <2>3, LenProperties DEF IsList
<1>4. /\ Placing(row) = (1..6) \ {6} /\ row \in [1..6 -> 0..5]
      /\ \A i \in Placing(row) : row[i] = i /\ i \in 1..5
      /\ \A i \in 1..6 : row[i] = 0 => i = 6
  BY DEF Placing
<1> HIDE DEF row
<1>5. Shaped(cs, 6, row, a)
  <2>1. \A i \in 1..6 : row[i] = 0 => cs[i].feature \notin Vocabulary
    BY <1>2, <1>3, <1>4 DEF Unknown
  <2>2. \A i \in 1..6 : cs[i].evidence = None
    <3>1. \A i \in 1..6 : i \in 1..5 \/ i = 6
      OBVIOUS
    <3> QED
      BY <1>1, <1>2, <1>3, <3>1
  <2>3. \A i \in Placing(row) : cs[i].feature = Top(a)[row[i]].feature /\ cs[i].rank \in Nat
    BY <1>1, <1>3, <1>4
  <2> QED
    BY <1>3, <1>4, <2>1, <2>2, <2>3 DEF Shaped
<1>6. Agreeing(cs, row, a) = Placing(row)
  BY <1>1, <1>3, <1>4 DEF Agreeing
<1>7. /\ Shaped(cs, n, row, a) /\ Cardinality(Placing(row)) = size
      /\ Cardinality(Agreeing(cs, row, a)) = size
      /\ n \in 1..6 /\ size \in 4..5 /\ size \in 1..5
      /\ \A i \in Placing(row) : cs[i].rank = row[i]
  BY <1>1, <1>3, <1>4, <1>5, <1>6, FiveFourSix
<1> HIDE DEF size, n
<1>8. Outcome(cs, a, (120 * size) \div n, (120 * size) \div 5, (120 * size) \div size,
              120, (120 * (n - size)) \div n)
  BY <1>7, OrderedOutcome, ZenonT(30)
<1>9. /\ (120 * size) \div n = 100 /\ (120 * size) \div 5 = 120
      /\ (120 * size) \div size = 120 /\ (120 * (n - size)) \div n = 20
  BY DEF n, size
<1> QED
  BY <1>8, <1>9 DEF cs, told

LEMMA SignFlipOutcome ==
  ASSUME NEW a, Wide(a), Scale = 120
  PROVE  Outcome(SignFlip(FaithfulClaims(a)), a, 120, 120, 96, 120, 0)
<1> DEFINE told == FaithfulClaims(a)
           cs == SignFlip(told)
           h == HighestMagnitude(told)
           row == InPlace(5)
           size == 5
           four == 4
<1>1. /\ IsList(told) /\ Len(told) = 5 /\ DOMAIN told = 1..5
      /\ \A i \in 1..5 : told[i] = [feature |-> Top(a)[i].feature,
                                    direction |-> SignOf(Top(a)[i].value), rank |-> i,
                                    magnitude |-> Abs(Top(a)[i].value), evidence |-> None]
  BY FiveAreTold
<1>2. \A r \in 1..5 : Top(a)[r].value \in Int
  BY FiveAreTop DEF Row
<1> HIDE DEF told
<1>3. h \in 1..5
  <2> DEFINE C == 1..5
             J == [i \in C |-> Magnitude(told[i])]
             best == {i \in C : \A j \in C : Magnitude(told[i]) >= Magnitude(told[j])}
  <2>1. h = Min(best)
    BY <1>1 DEF HighestMagnitude
  <2>2. IsFiniteSet(C) /\ C # {} /\ C \subseteq Int
    BY FiveFourSix
  <2>3. J \in [C -> Int]
    BY <1>1, <1>2 DEF Magnitude, Abs
  <2>4. best \in SUBSET C
    OBVIOUS
  <2> HIDE DEF C, h
  <2>5. \E i \in C : \A j \in C : J[j] <= J[i]
    <3> HIDE DEF J
    <3> QED
      BY <2>2, <2>3, BestExists
  <2>6. best # {}
    BY <2>3, <2>5
  <2> HIDE DEF best
  <2>7. IsFiniteSet(best)
    BY <2>2, <2>4, FS_Subset
  <2>8. best \subseteq Int
    BY <2>2, <2>4
  <2>9. Min(best) \in best
    BY <2>6, <2>7, <2>8, Extremes
  <2> QED
    BY <2>1, <2>4, <2>9 DEF C
<1>4. /\ DOMAIN cs = 1..5 /\ cs = [i \in 1..5 |-> cs[i]]
      /\ \A i \in 1..5 : i # h => cs[i] = told[i]
      /\ cs[h].feature = told[h].feature /\ cs[h].rank = told[h].rank /\ cs[h].evidence = None
      /\ cs[h].direction # told[h].direction
  <2> DEFINE c == told[h]
             e == MakeClaim(c.feature, IF c.direction = Plus THEN Minus ELSE Plus,
                            c.rank, c.magnitude, None)
  <2>1. c.direction \in {Plus, Minus}
    BY <1>1, <1>2, <1>3 DEF SignOf
  <2>2. c.direction # None
    BY <2>1, NoneAssumption
  <2>3. cs = [told EXCEPT ![h] = e]
    BY <2>2 DEF SignFlip
  <2>4. /\ e.feature = c.feature /\ e.rank = c.rank /\ e.evidence = None
        /\ e.direction # c.direction
    BY <2>1 DEF MakeClaim, Plus, Minus
  <2> HIDE DEF cs, e, h
  <2> QED
    BY <1>1, <1>3, <2>3, <2>4
<1> HIDE DEF cs, h
<1>5. IsList(cs) /\ Len(cs) = 5
  BY <1>4, FunctionsAreLists
<1>6. Placing(row) = 1..5 /\ row \in [1..5 -> 0..5] /\ \A i \in 1..5 : row[i] = i
  BY DEF InPlace, Placing
<1> HIDE DEF row
<1>7. /\ \A i \in 1..5 : cs[i].feature = Top(a)[i].feature /\ cs[i].rank = i
      /\ \A i \in 1..5 : cs[i].evidence = None
  BY <1>1, <1>3, <1>4
<1>8. Shaped(cs, 5, row, a)
  BY <1>4, <1>5, <1>6, <1>7 DEF Shaped
<1>9. Agreeing(cs, row, a) = (1..5) \ {h}
  BY <1>1, <1>3, <1>4, <1>6 DEF Agreeing
<1>10. /\ Shaped(cs, size, row, a) /\ Cardinality(Placing(row)) = size
       /\ Cardinality(Agreeing(cs, row, a)) = four
       /\ size \in 1..6 /\ size \in 4..5 /\ four \in 1..5
       /\ \A i \in Placing(row) : cs[i].rank = row[i]
  <2>1. Cardinality(Placing(row)) = size
    BY <1>6, FiveFourSix
  <2>2. Cardinality(Agreeing(cs, row, a)) = four
    BY <1>3, <1>9, FiveFourSix
  <2>3. \A i \in Placing(row) : cs[i].rank = row[i]
    BY <1>6, <1>7
  <2> QED
    BY <1>8, <2>1, <2>2, <2>3
<1> HIDE DEF size, four
<1>11. Outcome(cs, a, (120 * size) \div size, (120 * size) \div 5, (120 * four) \div size,
               120, (120 * (size - size)) \div size)
  BY <1>10, OrderedOutcome
<1>12. /\ (120 * size) \div size = 120 /\ (120 * size) \div 5 = 120
       /\ (120 * four) \div size = 96 /\ (120 * (size - size)) \div size = 0
  BY DEF size, four
<1> QED
  BY <1>11, <1>12 DEF cs, told

\* B1's first claim is its claim of rank one.
LEMMA FirstIsRankOne ==
  ASSUME NEW a, Wide(a)
  PROVE  RankOne(FaithfulClaims(a)) = 1
<1> DEFINE told == FaithfulClaims(a)
           ones == {i \in DOMAIN told : told[i].rank = 1}
<1>1. DOMAIN told = 1..5 /\ \A i \in 1..5 : told[i].rank = i
  <2>1. /\ DOMAIN told = 1..5
        /\ \A i \in 1..5 : told[i] = [feature |-> Top(a)[i].feature,
                                      direction |-> SignOf(Top(a)[i].value), rank |-> i,
                                      magnitude |-> Abs(Top(a)[i].value), evidence |-> None]
    BY FiveAreTold
  <2> HIDE DEF told
  <2> QED
    BY <2>1
<1>2. RankOne(told) = IF ones = {} THEN 1 ELSE Min(ones)
  BY DEF RankOne
<1> HIDE DEF told
<1>3. ones = {1}
  BY <1>1
<1> HIDE DEF ones
<1>4. IsFiniteSet(ones) /\ ones \subseteq Int /\ ones # {}
  BY <1>3, FS_Singleton
<1>5. Min(ones) \in ones
  BY <1>4, Extremes
<1> QED
  BY <1>2, <1>3, <1>5 DEF told

LEMMA OmissionOutcome ==
  ASSUME NEW a, Wide(a), Scale = 120
  PROVE  Outcome(Omission(FaithfulClaims(a)), a, 120, 96, 120, 120, 0)
<1> DEFINE told == FaithfulClaims(a)
           cs == Omission(told)
           row == [i \in 1..4 |-> i + 1]
           size == 4
<1>1. /\ IsList(told) /\ Len(told) = 5 /\ DOMAIN told = 1..5
      /\ \A i \in 1..5 : told[i] = [feature |-> Top(a)[i].feature,
                                    direction |-> SignOf(Top(a)[i].value), rank |-> i,
                                    magnitude |-> Abs(Top(a)[i].value), evidence |-> None]
  BY FiveAreTold
<1>2. RankOne(told) = 1
  BY FirstIsRankOne
<1> HIDE DEF told
<1>3. IsList(cs) /\ Len(cs) = 4 /\ DOMAIN cs = 1..4 /\ \A i \in 1..4 : cs[i] = told[i + 1]
  <2> DEFINE S == Range(told)
             left == SubSeq(told, 1, 0)
             right == SubSeq(told, 2, 5)
  <2>1. cs = left \o right
    BY <1>1, <1>2 DEF Omission, RemoveAt
  <2>2. told \in Seq(S) /\ \A i \in 1..5 : told[i] \in S
    BY <1>1, ListsHaveLengths DEF Range
  <2> HIDE DEF S
  <2>3. left \in Seq(S) /\ Len(left) = 0
    BY <1>1, <2>2, SubSeqProperties
  <2>4. right \in Seq(S) /\ Len(right) = 4 /\ \A i \in 1..4 : right[i] = told[i + 1]
    BY <1>1, <2>2, SubSeqProperties
  <2> HIDE DEF left, right, cs
  <2>5. /\ cs \in Seq(S) /\ Len(cs) = Len(left) + Len(right)
        /\ \A i \in 1..(Len(left) + Len(right)) :
             cs[i] = IF i <= Len(left) THEN left[i] ELSE right[i - Len(left)]
    BY <2>1, <2>3, <2>4, ConcatProperties, ZenonT(30)
  <2>6. Len(cs) = 4 /\ \A i \in 1..4 : cs[i] = right[i]
    BY <2>3, <2>4, <2>5
  <2> QED
    BY <2>4, <2>5, <2>6, LenProperties DEF IsList
<1> HIDE DEF cs
<1>4. Placing(row) = 1..4 /\ row \in [1..4 -> 0..5] /\ \A i \in 1..4 : row[i] = i + 1
  BY DEF Placing
<1> HIDE DEF row
<1>5. \A i \in 1..4 : /\ cs[i].feature = Top(a)[row[i]].feature /\ cs[i].rank = row[i]
                      /\ cs[i].evidence = None
                      /\ cs[i].direction = SignOf(Top(a)[row[i]].value)
  <2> TAKE i \in 1..4
  <2>1. i + 1 \in 1..5
    OBVIOUS
  <2> QED
    BY <1>1, <1>3, <1>4, <2>1
<1>6. Shaped(cs, 4, row, a)
  <2>1. \A i, j \in Placing(row) : row[i] = row[j] => i = j
    BY <1>4
  <2>2. \A i \in Placing(row) : cs[i].feature = Top(a)[row[i]].feature /\ cs[i].rank \in Nat
    BY <1>4, <1>5
  <2>3. \A i \in 1..4 : row[i] # 0
    BY <1>4
  <2> QED
    BY <1>3, <1>4, <1>5, <2>1, <2>2, <2>3 DEF Shaped
<1>7. Agreeing(cs, row, a) = 1..4
  BY <1>4, <1>5 DEF Agreeing
<1>8. /\ Shaped(cs, size, row, a) /\ Cardinality(Placing(row)) = size
      /\ Cardinality(Agreeing(cs, row, a)) = size
      /\ size \in 1..6 /\ size \in 4..5 /\ size \in 1..5
      /\ \A i \in Placing(row) : cs[i].rank = row[i]
  BY <1>4, <1>5, <1>6, <1>7, FiveFourSix
<1> HIDE DEF size
<1>9. Outcome(cs, a, (120 * size) \div size, (120 * size) \div 5, (120 * size) \div size,
              120, (120 * (size - size)) \div size)
  BY <1>8, OrderedOutcome
<1>10. /\ (120 * size) \div size = 120 /\ (120 * size) \div 5 = 96
       /\ (120 * (size - size)) \div size = 0
  BY DEF size
<1> QED
  BY <1>9, <1>10 DEF cs, told

LEMMA VagueOutcome ==
  ASSUME NEW a, Wide(a), Scale = 120, Unknown
  PROVE  Outcome(VagueSubstitution(FaithfulClaims(a)), a, 96, 96, 120, 120, 24)
<1> DEFINE one == 1
           told == FaithfulClaims(a)
           cs == VagueSubstitution(told)
           row == [i \in 1..5 |-> IF i = one THEN 0 ELSE i]
           size == 4
           n == 5
<1>1. /\ IsList(told) /\ Len(told) = 5 /\ DOMAIN told = 1..5
      /\ \A i \in 1..5 : told[i] = [feature |-> Top(a)[i].feature,
                                    direction |-> SignOf(Top(a)[i].value), rank |-> i,
                                    magnitude |-> Abs(Top(a)[i].value), evidence |-> None]
  BY FiveAreTold
<1>2. RankOne(told) = one /\ one \in 1..5
  BY FirstIsRankOne
<1> HIDE DEF told, one
<1>3. /\ DOMAIN cs = 1..5 /\ cs = [i \in 1..5 |-> cs[i]]
      /\ \A i \in 1..5 : i # one => cs[i] = told[i]
      /\ cs[one].feature = "an unspecified traffic feature" /\ cs[one].evidence = None
  <2> DEFINE e == MakeClaim("an unspecified traffic feature", told[one].direction,
                            told[one].rank, told[one].magnitude, None)
  <2>1. cs = [told EXCEPT ![one] = e]
    BY <1>2 DEF VagueSubstitution
  <2>2. e.feature = "an unspecified traffic feature" /\ e.evidence = None
    BY DEF MakeClaim
  <2> HIDE DEF cs, e
  <2> QED
    BY <1>1, <1>2, <2>1, <2>2
<1> HIDE DEF cs
<1>4. IsList(cs) /\ Len(cs) = 5
  BY <1>3, FunctionsAreLists
<1>5. /\ Placing(row) = (1..5) \ {one} /\ row \in [1..5 -> 0..5]
      /\ \A i \in Placing(row) : row[i] = i /\ i \in 1..5 /\ i # one
      /\ \A i \in 1..5 : row[i] = 0 => i = one
  BY DEF Placing
<1> HIDE DEF row
<1>6. Shaped(cs, 5, row, a)
  <2>1. \A i \in 1..5 : row[i] = 0 => cs[i].feature \notin Vocabulary
    BY <1>3, <1>5 DEF Unknown
  <2>2. \A i \in 1..5 : cs[i].evidence = None
    <3>1. \A i \in 1..5 : told[i].evidence = None
      BY <1>1
    <3> QED
      BY <1>3, <3>1
  <2>3. \A i \in Placing(row) : cs[i].feature = Top(a)[row[i]].feature /\ cs[i].rank \in Nat
    <3> TAKE i \in Placing(row)
    <3>1. i \in 1..5 /\ row[i] = i /\ cs[i] = told[i]
      BY <1>3, <1>5
    <3> QED
      BY <1>1, <3>1
  <2>4. \A i, j \in Placing(row) : row[i] = row[j] => i = j
    BY <1>5
  <2>5. 5 \in Nat /\ DOMAIN cs = 1..5 /\ Len(cs) = 5 /\ IsList(cs)
    BY <1>3, <1>4
  <2>6. row \in [1..5 -> 0..5]
    BY <1>5
  <2> QED
    BY <2>1, <2>2, <2>3, <2>4, <2>5, <2>6 DEF Shaped
<1>7. Agreeing(cs, row, a) = Placing(row)
  <2>1. ASSUME NEW i \in Placing(row) PROVE cs[i].direction = SignOf(Top(a)[row[i]].value)
    <3>1. i \in 1..5 /\ row[i] = i /\ cs[i] = told[i]
      BY <1>3, <1>5
    <3> QED
      BY <1>1, <3>1
  <2> QED
    BY <2>1 DEF Agreeing
<1>8. /\ Shaped(cs, n, row, a) /\ Cardinality(Placing(row)) = size
      /\ Cardinality(Agreeing(cs, row, a)) = size
      /\ n \in 1..6 /\ size \in 4..5 /\ size \in 1..5
      /\ \A i \in Placing(row) : cs[i].rank = row[i]
  <2>1. Cardinality(Placing(row)) = size
    BY <1>2, <1>5, FiveFourSix
  <2>2. \A i \in Placing(row) : cs[i].rank = row[i]
    <3> TAKE i \in Placing(row)
    <3>1. i \in 1..5 /\ row[i] = i /\ cs[i] = told[i]
      BY <1>3, <1>5
    <3> QED
      BY <1>1, <3>1
  <2> QED
    BY <1>6, <1>7, <2>1, <2>2
<1> HIDE DEF size, n
<1>9. Outcome(cs, a, (120 * size) \div n, (120 * size) \div 5, (120 * size) \div size,
              120, (120 * (n - size)) \div n)
  BY <1>8, OrderedOutcome, ZenonT(30)
<1>10. /\ (120 * size) \div n = 96 /\ (120 * size) \div 5 = 96
       /\ (120 * size) \div size = 120 /\ (120 * (n - size)) \div n = 24
  BY DEF n, size
<1> QED
  BY <1>9, <1>10 DEF cs, told

LEMMA SumOfTwo ==
  ASSUME NEW f \in [1..5 -> Int], f[1] = 1, f[2] = 1, f[3] = 0, f[4] = 0, f[5] = 0
  PROVE  SumTo(f, 5) = 2
<1> DEFINE five == 5
<1> HIDE DEF five
<1>1. five \in Nat /\ f \in [1..five -> Int]
  BY DEF five
<1>2. PICK sum : /\ SumTo(f, five) = sum[five] /\ sum[0] = 0
                 /\ \A k \in 1..five : sum[k] = sum[k - 1] + f[k]
  BY <1>1, SumsAddUp
<1>3. \A k \in 1..5 : sum[k] = sum[k - 1] + f[k]
  BY <1>2 DEF five
<1>4. sum[1] = 1
  BY <1>2, <1>3
<1>5. sum[2] = 2
  BY <1>3, <1>4
<1>6. sum[3] = 2
  BY <1>3, <1>5
<1>7. sum[4] = 2
  BY <1>3, <1>6
<1>8. sum[5] = 2
  BY <1>3, <1>7
<1> QED
  BY <1>2, <1>8 DEF five

\* The first two places of five swapped.
LEMMA SwappedPositions ==
  ASSUME NEW said, DOMAIN said = 1..5, NEW real, DOMAIN real = 1..5,
         \A i \in 1..5 : real[i] = i,
         said[1] = 2, said[2] = 1, said[3] = 3, said[4] = 4, said[5] = 5
  PROVE  /\ Position(said, 1) - Position(real, 1) = 1
         /\ Position(said, 2) - Position(real, 2) = -1
         /\ \A i \in 3..5 : Position(said, i) - Position(real, i) = 0
<1> DEFINE Before(xs, i) == {j \in DOMAIN xs : xs[j] < xs[i] \/ (xs[j] = xs[i] /\ j < i)}
<1>1. \A xs, i : Position(xs, i) = Cardinality(Before(xs, i))
  BY DEF Position
<1>2. \A j \in 1..5 : j = 1 \/ j = 2 \/ j = 3 \/ j = 4 \/ j = 5
  OBVIOUS
<1>3. \A j \in 1..5 : said[j] = IF j = 1 THEN 2 ELSE IF j = 2 THEN 1 ELSE j
  BY <1>2
<1>4. Before(said, 1) = {2}
  BY <1>3
<1>5. Before(real, 1) = {}
  OBVIOUS
<1>6. Before(said, 2) = {}
  BY <1>3
<1>7. Before(real, 2) = {1}
  OBVIOUS
<1>8. ASSUME NEW i \in 3..5 PROVE Before(said, i) = Before(real, i) /\ Before(real, i) \subseteq 1..5
  <2>1. \A j \in 1..5 : said[j] < i <=> j < i
    BY <1>3
  <2>2. \A j \in 1..5 : said[j] = i <=> j = i
    BY <1>3
  <2>3. said[i] = i /\ real[i] = i /\ i \in 1..5
    BY <1>3
  <2> QED
    BY <2>1, <2>2, <2>3
<1> HIDE DEF Before
<1>9. /\ \A x : Cardinality({x}) = 1
      /\ Cardinality({}) = 0
  BY FS_Singleton, FS_EmptySet
<1>10. ASSUME NEW i \in 3..5 PROVE Cardinality(Before(real, i)) \in Nat
  <2>1. Before(real, i) \in SUBSET (1..5)
    BY <1>8
  <2>2. IsFiniteSet(Before(real, i))
    BY <2>1, FiveFourSix, FS_Subset
  <2> QED
    BY <2>2, FS_CardinalityType
<1>11. /\ Position(said, 1) = 1 /\ Position(real, 1) = 0
       /\ Position(said, 2) = 0 /\ Position(real, 2) = 1
  <2>1. Position(said, 1) = 1
    BY <1>1, <1>4, <1>9
  <2>2. Position(real, 1) = 0
    BY <1>1, <1>5, <1>9
  <2>3. Position(said, 2) = 0
    BY <1>1, <1>6, <1>9
  <2>4. Position(real, 2) = 1
    BY <1>1, <1>7, <1>9
  <2> QED
    BY <2>1, <2>2, <2>3, <2>4
<1>12. \A i \in 3..5 : Position(said, i) = Position(real, i) /\ Position(real, i) \in Nat
  BY <1>1, <1>8, <1>10
<1> QED
  BY <1>11, <1>12

LEMMA RankInversionOutcome ==
  ASSUME NEW a, Wide(a), Scale = 120
  PROVE  Outcome(RankInversion(FaithfulClaims(a)), a, 120, 120, 120, 108, 0)
<1> DEFINE told == FaithfulClaims(a)
           cs == RankInversion(told)
           row == InPlace(5)
           five == 5
<1>1. /\ IsList(told) /\ Len(told) = 5 /\ DOMAIN told = 1..5
      /\ \A i \in 1..5 : told[i] = [feature |-> Top(a)[i].feature,
                                    direction |-> SignOf(Top(a)[i].value), rank |-> i,
                                    magnitude |-> Abs(Top(a)[i].value), evidence |-> None]
  BY FiveAreTold
<1> HIDE DEF told
<1>2. \A i \in 1..5 : told[i].rank = i
  BY <1>1
<1>3. cs = [told EXCEPT ![1].rank = 2, ![2].rank = 1]
  <2>1. told[1].rank = 1 /\ told[2].rank = 2
    <3>1. 1 \in 1..5 /\ 2 \in 1..5
      OBVIOUS
    <3> QED
      BY <1>2, <3>1
  <2>2. ~ (Len(told) < 2)
    BY <1>1
  <2>3. cs = [told EXCEPT ![1].rank = told[2].rank, ![2].rank = told[1].rank]
    BY <2>2 DEF RankInversion
  <2> QED
    BY <2>1, <2>3
<1> HIDE DEF cs
<1>4. DOMAIN cs = 1..5 /\ cs = [i \in 1..5 |-> cs[i]]
  BY <1>1, <1>3
<1>5. /\ cs[1].rank = 2 /\ cs[2].rank = 1 /\ cs[3].rank = 3 /\ cs[4].rank = 4 /\ cs[5].rank = 5
  BY <1>1, <1>2, <1>3
<1>6. \A i \in 1..5 : /\ cs[i].feature = Top(a)[i].feature /\ cs[i].evidence = None
                      /\ cs[i].direction = SignOf(Top(a)[i].value)
  BY <1>1, <1>3
<1>7. IsList(cs) /\ Len(cs) = 5
  BY <1>4, FunctionsAreLists
<1>8. Placing(row) = 1..5 /\ row \in [1..5 -> 0..5] /\ \A i \in 1..5 : row[i] = i
  BY DEF InPlace, Placing
<1> HIDE DEF row
<1>9. \A i \in 1..5 : cs[i].rank \in Nat
  <2>1. \A i \in 1..5 : i = 1 \/ i = 2 \/ i = 3 \/ i = 4 \/ i = 5
    OBVIOUS
  <2> QED
    BY <1>5, <2>1
<1>10. Shaped(cs, 5, row, a)
  BY <1>4, <1>6, <1>7, <1>8, <1>9 DEF Shaped
<1>11. Agreeing(cs, row, a) = 1..5
  BY <1>6, <1>8 DEF Agreeing
<1>12. /\ Shaped(cs, five, row, a) /\ Cardinality(Placing(row)) = five
       /\ Cardinality(Agreeing(cs, row, a)) = five
  BY <1>8, <1>10, <1>11, FiveFourSix
<1> HIDE DEF five
<1>13. /\ MentionPrecision(cs, a) = [num |-> five, den |-> five]
       /\ MentionRecall(cs, a) = [num |-> five, den |-> 5]
       /\ Hfr(cs, a) = [num |-> five - five, den |-> five]
       /\ DsaAsserted(cs, a) = [num |-> five, den |-> five]
  BY <1>12, ShapedClaimsScore
<1>14. Arc(cs, a) = [num |-> 108, den |-> 120]
  <2> DEFINE pairs == ArcPairs(cs, a)
             top == Top(a)
             said == [i \in pairs |-> cs[i].rank]
             real == [i \in pairs |-> RankIn(top, cs[i].feature)]
             k == Cardinality(pairs)
             Off(i) == Position(said, i) - Position(real, i)
             squares == [i \in DOMAIN cs |-> IF i \in pairs THEN Off(i) * Off(i) ELSE 0]
             sum == SumTo(squares, Len(cs))
  <2>1. Arc(cs, a) = IF k < 2 THEN Fraction(0, 0)
                     ELSE Fraction(k * (k * k - 1) - 6 * sum, k * (k * k - 1))
    BY DEF Arc
  <2>2. pairs = 1..5
    <3>1. Measured(cs, five, row, a)
      BY <1>12, ShapedClaimsAreMeasured
    <3> QED
      BY <1>8, <3>1 DEF Measured
  <2>3. k = 5
    BY <2>2, FiveFourSix
  <2>4. \A i \in 1..5 : RankIn(top, cs[i].feature) = i
    <3> TAKE i \in 1..5
    <3>1. i \in Placing(row) /\ row[i] = i
      BY <1>8
    <3>2. RankIn(Top(a), cs[i].feature) = row[i]
      BY <1>12, <3>1, ShapedRowsAreFound
    <3> QED
      BY <3>1, <3>2
  <2> HIDE DEF pairs, top, k
  <2>5. /\ DOMAIN said = 1..5 /\ DOMAIN real = 1..5 /\ \A i \in 1..5 : real[i] = i
        /\ said[1] = 2 /\ said[2] = 1 /\ said[3] = 3 /\ said[4] = 4 /\ said[5] = 5
    BY <1>5, <2>2, <2>4
  <2> HIDE DEF said, real
  <2>6. Off(1) = 1 /\ Off(2) = -1 /\ \A i \in 3..5 : Off(i) = 0
    BY <2>5, SwappedPositions
  <2> HIDE DEF Off
  <2>7. squares = [i \in 1..5 |-> Off(i) * Off(i)]
    BY <1>4, <2>2
  <2>8. \A i \in 1..5 : Off(i) \in Int
    <3>1. \A i \in 1..5 : i = 1 \/ i = 2 \/ i \in 3..5
      OBVIOUS
    <3> QED
      BY <2>6, <3>1
  <2>9. squares \in [1..5 -> Int]
    BY <2>7, <2>8
  <2>10. squares[1] = 1 /\ squares[2] = 1 /\ squares[3] = 0 /\ squares[4] = 0 /\ squares[5] = 0
    BY <2>6, <2>7
  <2> HIDE DEF squares
  <2>11. sum = 2
    BY <1>7, <2>9, <2>10, SumOfTwo
  <2> HIDE DEF sum
  <2> QED
    BY <2>1, <2>3, <2>11 DEF Fraction
<1> QED
  BY <1>13, <1>14 DEF Outcome, Scaled, five, cs, told

\* Where fewer scores are called corrupted.
LEMMA FewerAreCalled ==
  ASSUME NEW s, Sample(s), NEW t, NEW u, NEW low,
         \A i \in DOMAIN s : Calls(s[i], u, low) => Calls(s[i], t, low),
         NEW p \in DOMAIN s, Calls(s[p], t, low), ~ Calls(s[p], u, low)
  PROVE  Called(s, u, low) < Called(s, t, low)
<1> DEFINE Caught(x) == {i \in DOMAIN s : IF low THEN 2 * s[i] < x ELSE 2 * s[i] > x}
<1>1. Called(s, u, low) = Cardinality(Caught(u)) /\ Called(s, t, low) = Cardinality(Caught(t))
  BY DEF Called
<1>2. \A x : \A i \in DOMAIN s : i \in Caught(x) <=> Calls(s[i], x, low)
  BY DEF Calls
<1>3. Caught(t) \in SUBSET DOMAIN s /\ Caught(u) \in SUBSET DOMAIN s
  OBVIOUS
<1> HIDE DEF Caught
<1>4. Caught(u) \in SUBSET Caught(t) /\ p \in Caught(t) /\ p \notin Caught(u)
  BY <1>2, <1>3
<1>5. IsFiniteSet(Caught(t))
  BY <1>3, FS_Subset DEF Sample
<1>6. /\ IsFiniteSet(Caught(u)) /\ Cardinality(Caught(u)) <= Cardinality(Caught(t))
      /\ Cardinality(Caught(t)) = Cardinality(Caught(u)) => Caught(t) = Caught(u)
  BY <1>4, <1>5, FS_Subset
<1>7. Cardinality(Caught(t)) \in Nat /\ Cardinality(Caught(u)) \in Nat
  BY <1>5, <1>6, FS_CardinalityType
<1> QED
  BY <1>1, <1>4, <1>6, <1>7

\* A candidate that calls no faithful score, and more of the corrupted ones than
\* any other candidate that does so, is the operating point.
LEMMA SeparatingPoint ==
  ASSUME NEW f, Sample(f), NEW c, Sample(c), DOMAIN f # {}, NEW e \in Int, Range(f) = {e},
         NEW low, NEW t \in Candidates({e} \cup Range(c)), t \in Int, ~ Calls(e, t, low),
         \E x \in Range(c) : Calls(x, t, low),
         \A u \in Candidates({e} \cup Range(c)) :
           \/ u = t
           \/ Calls(e, u, low) /\ \A x \in Range(c) : Calls(x, u, low)
           \/ /\ ~ Calls(e, u, low) /\ \A x \in Range(c) : Calls(x, u, low) => Calls(x, t, low)
              /\ \E x \in Range(c) : Calls(x, t, low) /\ ~ Calls(x, u, low)
  PROVE  OperatingPoint(f, c, low) = t
<1> DEFINE C == Candidates({e} \cup Range(c))
           n == Cardinality(DOMAIN f)
           m == Cardinality(DOMAIN c)
           J(u) == Called(c, u, low) * n - Called(f, u, low) * m
           best == {x \in C : \A u \in C : Youden(f, c, u, low) <= Youden(f, c, x, low)}
<1>1. \A i \in DOMAIN f : f[i] = e
  BY DEF Range
<1>2. /\ \A i \in DOMAIN c : c[i] \in Range(c)
      /\ \A x \in Range(c) : \E i \in DOMAIN c : c[i] = x
  BY DEF Range
<1>3. n \in Nat /\ m \in Nat /\ n >= 1
  <2>1. n \in Nat /\ m \in Nat
    BY CalledIsACount
  <2>2. n # 0
    BY FS_EmptySet DEF Sample
  <2> QED
    BY <2>1, <2>2
<1>4. \A u : Youden(f, c, u, low) = J(u)
  BY DEF Youden
<1>5. \A u : Called(c, u, low) \in Nat /\ Called(f, u, low) \in Nat
  BY CalledIsACount
<1>6. ASSUME NEW u, ~ Calls(e, u, low) PROVE J(u) = Called(c, u, low) * n
  <2>1. Called(f, u, low) = 0
    BY <1>1, <1>6, CalledIsACount
  <2>2. Called(c, u, low) * n \in Int
    BY <1>3, <1>5
  <2> DEFINE k == Called(c, u, low) * n
  <2> HIDE DEF k
  <2>3. k - 0 * m = k
    BY <1>3, <2>2 DEF k
  <2> QED
    BY <2>1, <2>3 DEF k
<1> HIDE DEF J, C, n, m
<1>7. ASSUME NEW i \in Nat, NEW j \in Nat, i < j PROVE i * n < j * n
  BY <1>3, <1>7
<1>8. J(t) = Called(c, t, low) * n /\ Called(c, t, low) >= 1 /\ J(t) >= 1
  <2>1. PICK p \in DOMAIN c : Calls(c[p], t, low)
    BY <1>2
  <2>2. Called(c, t, low) # 0
    <3> DEFINE these == {i \in DOMAIN c : IF low THEN 2 * c[i] < t ELSE 2 * c[i] > t}
    <3>1. p \in these /\ Called(c, t, low) = Cardinality(these) /\ these \in SUBSET DOMAIN c
      BY <2>1 DEF Calls, Called
    <3> HIDE DEF these
    <3>2. IsFiniteSet(these)
      BY <3>1, FS_Subset DEF Sample
    <3>3. Cardinality(these) # 0
      BY <3>1, <3>2, FS_EmptySet
    <3> QED
      BY <3>1, <3>3
  <2>3. Called(c, t, low) >= 1
    BY <1>5, <2>2
  <2>4. J(t) = Called(c, t, low) * n
    BY <1>6
  <2>5. Called(c, t, low) * n >= 1
    <3> DEFINE k == Called(c, t, low)
    <3>1. k \in Nat /\ k >= 1
      BY <1>5, <2>3
    <3> HIDE DEF k
    <3>2. 0 * n < k * n
      BY <1>7, <3>1
    <3>3. 0 * n = 0 /\ k * n \in Int
      BY <1>3, <3>1
    <3> QED
      BY <3>2, <3>3 DEF k
  <2> QED
    BY <2>3, <2>4, <2>5
<1>9. ASSUME NEW u \in C, u # t PROVE J(u) < J(t)
  <2>1. CASE Calls(e, u, low) /\ \A x \in Range(c) : Calls(x, u, low)
    <3>1. Called(f, u, low) = n
      BY <1>1, <2>1, CalledIsACount DEF n
    <3>2. Called(c, u, low) = m
      BY <1>2, <2>1, CalledIsACount DEF m
    <3>3. J(u) = m * n - n * m
      BY <3>1, <3>2 DEF J
    <3>4. J(u) = 0
      BY <1>3, <3>3
    <3> QED
      BY <1>3, <1>5, <1>8, <3>4
  <2>2. CASE /\ ~ Calls(e, u, low)
             /\ \A x \in Range(c) : Calls(x, u, low) => Calls(x, t, low)
             /\ \E x \in Range(c) : Calls(x, t, low) /\ ~ Calls(x, u, low)
    <3>1. J(u) = Called(c, u, low) * n
      BY <1>6, <2>2
    <3>2. PICK p \in DOMAIN c : Calls(c[p], t, low) /\ ~ Calls(c[p], u, low)
      BY <1>2, <2>2
    <3>3. \A i \in DOMAIN c : Calls(c[i], u, low) => Calls(c[i], t, low)
      BY <1>2, <2>2
    <3>4. Called(c, u, low) < Called(c, t, low)
      BY <3>2, <3>3, FewerAreCalled
    <3> QED
      BY <1>5, <1>7, <1>8, <3>1, <3>4
  <2> QED
    BY <1>9, <2>1, <2>2 DEF C
<1>10. \A u \in C : J(u) \in Int
  BY <1>3, <1>5 DEF J
<1>11. best = {t}
  <2>1. t \in C
    BY DEF C
  <2>2. \A u \in C : J(u) <= J(t)
    <3> TAKE u \in C
    <3>1. u = t \/ J(u) < J(t)
      BY <1>9
    <3> QED
      BY <1>10, <2>1, <3>1
  <2>3. ASSUME NEW x \in C, \A u \in C : J(u) <= J(x) PROVE x = t
    <3>1. J(t) <= J(x)
      BY <2>1, <2>3
    <3>2. x # t => J(x) < J(t)
      BY <1>9
    <3> QED
      BY <1>10, <2>1, <3>1, <3>2
  <2> QED
    BY <1>4, <2>1, <2>2, <2>3
<1>12. OperatingPoint(f, c, low) = Min(best)
  BY DEF OperatingPoint, C
<1>13. Min({t}) \in {t}
  <2>1. IsFiniteSet({t})
    BY FS_Singleton
  <2> QED
    BY <2>1, Extremes
<1> QED
  BY <1>11, <1>12, <1>13

\* The candidates between two and among three scores.
LEMMA TwoScores ==
  ASSUME NEW x \in Int, NEW y \in Int, x < y
  PROVE  Candidates({x, y}) = {2 * (x - Scale), 2 * (y + Scale), x + y}
<1> DEFINE V == {x, y}
           Above(a) == {b \in V : b > a}
<1>1. IsFiniteSet(V) /\ Cardinality(V) = 2
  <2>1. IsFiniteSet({x}) /\ Cardinality({x}) = 1
    BY FS_Singleton
  <2>2. V = {x} \cup {y} /\ y \notin {x}
    OBVIOUS
  <2> HIDE DEF V
  <2> QED
    BY <2>1, <2>2, FS_AddElement
<1>2. V \subseteq Int /\ V # {} /\ \A a : a \in V <=> a = x \/ a = y
  OBVIOUS
<1>3. Above(x) = {y}
  OBVIOUS
<1> HIDE DEF V, Above
<1>4. Min(V) = x /\ Max(V) = y
  BY <1>1, <1>2, Extremes
<1>5. Min({y}) = y
  <2>1. IsFiniteSet({y})
    BY FS_Singleton
  <2> QED
    BY <2>1, Extremes
<1>6. {a + Min(Above(a)) : a \in V \ {y}} = {x + y}
  <2>1. V \ {y} = {x}
    BY <1>2
  <2> QED
    BY <1>3, <1>5, <2>1
<1>7. Candidates(V) = {2 * (Min(V) - Scale), 2 * (Max(V) + Scale)}
                        \cup {a + Min(Above(a)) : a \in V \ {Max(V)}}
  BY <1>1 DEF Candidates, Above
<1> QED
  BY <1>4, <1>6, <1>7 DEF V

LEMMA ThreeScores ==
  ASSUME NEW x \in Int, NEW y \in Int, NEW z \in Int, x < y, y < z
  PROVE  Candidates({x, y, z}) = {2 * (x - Scale), 2 * (z + Scale), x + y, y + z}
<1> DEFINE V == {x, y, z}
           Above(a) == {b \in V : b > a}
<1>1. IsFiniteSet(V) /\ Cardinality(V) = 3
  <2> DEFINE U == {x} \cup {y}
  <2>1. IsFiniteSet({x}) /\ Cardinality({x}) = 1 /\ y \notin {x}
    <3>1. IsFiniteSet({x}) /\ Cardinality({x}) = 1
      BY FS_Singleton
    <3>2. y \notin {x}
      OBVIOUS
    <3> QED
      BY <3>1, <3>2
  <2>2. IsFiniteSet(U) /\ Cardinality(U) = 2
    BY <2>1, FS_AddElement
  <2>3. V = U \cup {z} /\ z \notin U
    OBVIOUS
  <2> HIDE DEF U, V
  <2> QED
    BY <2>2, <2>3, FS_AddElement
<1>2. V \subseteq Int /\ V # {} /\ \A a : a \in V <=> a = x \/ a = y \/ a = z
  OBVIOUS
<1>3. Above(x) = {y, z} /\ Above(y) = {z}
  OBVIOUS
<1> HIDE DEF V, Above
<1>4. Min(V) = x /\ Max(V) = z
  BY <1>1, <1>2, Extremes
<1>5. Min({z}) = z /\ Min({y, z}) = y
  <2>1. IsFiniteSet({z})
    BY FS_Singleton
  <2>2. IsFiniteSet({y} \cup {z})
    BY <2>1, FS_Singleton, FS_Union
  <2> DEFINE W == {y} \cup {z}
  <2>3. Min({z}) = z
    BY <2>1, Extremes
  <2>4. W \subseteq Int /\ W # {} /\ \A b : b \in W <=> b = y \/ b = z
    OBVIOUS
  <2> HIDE DEF W
  <2>5. Min(W) \in W /\ \A b \in W : Min(W) <= b
    BY <2>2, <2>4, Extremes DEF W
  <2>6. Min(W) = y
    BY <2>4, <2>5
  <2>7. W = {y, z}
    BY DEF W
  <2> QED
    BY <2>3, <2>6, <2>7
<1>6. {a + Min(Above(a)) : a \in V \ {z}} = {x + y, y + z}
  <2>1. V \ {z} = {x, y}
    BY <1>2
  <2> QED
    BY <1>3, <1>5, <2>1
<1>7. Candidates(V) = {2 * (Min(V) - Scale), 2 * (Max(V) + Scale)}
                        \cup {a + Min(Above(a)) : a \in V \ {Max(V)}}
  BY <1>1 DEF Candidates, Above
<1> QED
  BY <1>4, <1>6, <1>7 DEF V

\* The points of the metrics whose faithful scores are all the same, and whose
\* corrupted ones are these.
LEMMA PrecisionPoint ==
  ASSUME Scale = 120, NEW f, Sample(f), NEW c, Sample(c), DOMAIN f # {},
         Range(f) = {120}, Range(c) = {100, 120, 96}
  PROVE  OperatingPoint(f, c, TRUE) = 220
<1> DEFINE e == 120  t == 220  low == TRUE
           S == {100, 120, 96}
           C == {-48, 480, 196, 220}
<1>1. {e} \cup Range(c) = {96, 100, 120}
  OBVIOUS
<1>2. Candidates({96, 100, 120}) = C
  <2> DEFINE x == 96  y == 100  z == 120
  <2>1. x \in Int /\ y \in Int /\ z \in Int /\ x < y /\ y < z
    OBVIOUS
  <2>2. /\ 2 * (x - Scale) = -48 /\ 2 * (z + Scale) = 480 /\ x + y = 196 /\ y + z = 220
    OBVIOUS
  <2> HIDE DEF x, y, z
  <2>3. Candidates({x, y, z}) = {2 * (x - Scale), 2 * (z + Scale), x + y, y + z}
    BY <2>1, ThreeScores
  <2> QED
    BY <2>2, <2>3 DEF x, y, z
<1>3. /\ t \in C /\ t \in Int /\ e \in Int /\ ~ Calls(e, t, low)
      /\ \E x \in S : Calls(x, t, low)
  BY DEF Calls
<1>4. ASSUME NEW u \in C
      PROVE  \/ u = t
             \/ Calls(e, u, low) /\ \A x \in S : Calls(x, u, low)
             \/ /\ ~ Calls(e, u, low) /\ \A x \in S : Calls(x, u, low) => Calls(x, t, low)
                /\ \E x \in S : Calls(x, t, low) /\ ~ Calls(x, u, low)
  BY DEF Calls
<1>5. Range(f) = {e} /\ Range(c) = S
  OBVIOUS
<1> HIDE DEF e, t, low, S, C
<1>6. Candidates({e} \cup Range(c)) = C
  BY <1>1, <1>2
<1>7. OperatingPoint(f, c, low) = t
  <2>1. t \in Candidates({e} \cup Range(c)) /\ \E x \in Range(c) : Calls(x, t, low)
    BY <1>3, <1>5, <1>6
  <2>2. \A u \in Candidates({e} \cup Range(c)) :
          \/ u = t
          \/ Calls(e, u, low) /\ \A x \in Range(c) : Calls(x, u, low)
          \/ /\ ~ Calls(e, u, low) /\ \A x \in Range(c) : Calls(x, u, low) => Calls(x, t, low)
             /\ \E x \in Range(c) : Calls(x, t, low) /\ ~ Calls(x, u, low)
    BY <1>4, <1>5, <1>6
  <2>3. Range(f) = {e} /\ e \in Int /\ t \in Int /\ ~ Calls(e, t, low)
    BY <1>3, <1>5
  <2> QED
    BY <2>1, <2>2, <2>3, SeparatingPoint
<1> QED
  BY <1>7 DEF t, low

LEMMA LowerPoint ==
  ASSUME Scale = 120, NEW f, Sample(f), NEW c, Sample(c), DOMAIN f # {},
         NEW y \in Nat, y < 120, Range(f) = {120},
         \A x : x \in Range(c) <=> x = 120 \/ x = y
  PROVE  OperatingPoint(f, c, TRUE) = y + 120
<1> DEFINE e == 120  t == y + 120  low == TRUE
           S == {120, y}
           C == {2 * (y - 120), 480, y + 120}
<1>1. {e} \cup Range(c) = {y, 120}
  OBVIOUS
<1>2. Candidates({y, 120}) = C
  <2> DEFINE z == 120
  <2>1. z \in Int /\ y < z /\ 2 * (z + Scale) = 480
    OBVIOUS
  <2> HIDE DEF z
  <2>2. Candidates({y, z}) = {2 * (y - Scale), 2 * (z + Scale), y + z}
    BY <2>1, TwoScores
  <2> QED
    BY <2>1, <2>2 DEF z
<1>3. /\ t \in C /\ t \in Int /\ e \in Int /\ ~ Calls(e, t, low)
      /\ \E x \in S : Calls(x, t, low)
  BY DEF Calls
<1>4. ASSUME NEW u \in C
      PROVE  \/ u = t
             \/ Calls(e, u, low) /\ \A x \in S : Calls(x, u, low)
             \/ /\ ~ Calls(e, u, low) /\ \A x \in S : Calls(x, u, low) => Calls(x, t, low)
                /\ \E x \in S : Calls(x, t, low) /\ ~ Calls(x, u, low)
  BY DEF Calls
<1>5. Range(f) = {e} /\ Range(c) = S
  OBVIOUS
<1> HIDE DEF e, t, low, S, C
<1>6. Candidates({e} \cup Range(c)) = C
  BY <1>1, <1>2
<1>7. OperatingPoint(f, c, low) = t
  <2>1. t \in Candidates({e} \cup Range(c)) /\ \E x \in Range(c) : Calls(x, t, low)
    BY <1>3, <1>5, <1>6
  <2>2. \A u \in Candidates({e} \cup Range(c)) :
          \/ u = t
          \/ Calls(e, u, low) /\ \A x \in Range(c) : Calls(x, u, low)
          \/ /\ ~ Calls(e, u, low) /\ \A x \in Range(c) : Calls(x, u, low) => Calls(x, t, low)
             /\ \E x \in Range(c) : Calls(x, t, low) /\ ~ Calls(x, u, low)
    BY <1>4, <1>5, <1>6
  <2>3. Range(f) = {e} /\ e \in Int /\ t \in Int /\ ~ Calls(e, t, low)
    BY <1>3, <1>5
  <2> QED
    BY <2>1, <2>2, <2>3, SeparatingPoint
<1> QED
  BY <1>7 DEF t, low

LEMMA StrangersPoint ==
  ASSUME Scale = 120, NEW f, Sample(f), NEW c, Sample(c), DOMAIN f # {},
         Range(f) = {0}, Range(c) = {0, 20, 24}
  PROVE  OperatingPoint(f, c, FALSE) = 20
<1> DEFINE e == 0  t == 20  low == FALSE
           S == {0, 20, 24}
           C == {-240, 288, 20, 44}
<1>1. {e} \cup Range(c) = {0, 20, 24}
  OBVIOUS
<1>2. Candidates({0, 20, 24}) = C
  <2> DEFINE x == 0  y == 20  z == 24
  <2>1. x \in Int /\ y \in Int /\ z \in Int /\ x < y /\ y < z
    OBVIOUS
  <2>2. /\ 2 * (x - Scale) = -240 /\ 2 * (z + Scale) = 288 /\ x + y = 20 /\ y + z = 44
    OBVIOUS
  <2> HIDE DEF x, y, z
  <2>3. Candidates({x, y, z}) = {2 * (x - Scale), 2 * (z + Scale), x + y, y + z}
    BY <2>1, ThreeScores
  <2> QED
    BY <2>2, <2>3 DEF x, y, z
<1>3. /\ t \in C /\ t \in Int /\ e \in Int /\ ~ Calls(e, t, low)
      /\ \E x \in S : Calls(x, t, low)
  BY DEF Calls
<1>4. ASSUME NEW u \in C
      PROVE  \/ u = t
             \/ Calls(e, u, low) /\ \A x \in S : Calls(x, u, low)
             \/ /\ ~ Calls(e, u, low) /\ \A x \in S : Calls(x, u, low) => Calls(x, t, low)
                /\ \E x \in S : Calls(x, t, low) /\ ~ Calls(x, u, low)
  BY DEF Calls
<1>5. Range(f) = {e} /\ Range(c) = S
  OBVIOUS
<1> HIDE DEF e, t, low, S, C
<1>6. Candidates({e} \cup Range(c)) = C
  BY <1>1, <1>2
<1>7. OperatingPoint(f, c, low) = t
  <2>1. t \in Candidates({e} \cup Range(c)) /\ \E x \in Range(c) : Calls(x, t, low)
    BY <1>3, <1>5, <1>6
  <2>2. \A u \in Candidates({e} \cup Range(c)) :
          \/ u = t
          \/ Calls(e, u, low) /\ \A x \in Range(c) : Calls(x, u, low)
          \/ /\ ~ Calls(e, u, low) /\ \A x \in Range(c) : Calls(x, u, low) => Calls(x, t, low)
             /\ \E x \in Range(c) : Calls(x, t, low) /\ ~ Calls(x, u, low)
    BY <1>4, <1>5, <1>6
  <2>3. Range(f) = {e} /\ e \in Int /\ t \in Int /\ ~ Calls(e, t, low)
    BY <1>3, <1>5
  <2> QED
    BY <2>1, <2>2, <2>3, SeparatingPoint
<1> QED
  BY <1>7 DEF t, low

\* The metrics that an operator is designated to, and what they score.
Judged == {"mention_precision", "mention_recall", "dsa_asserted", "arc", "hfr"}

Expected(m, v) ==
  CASE m = "mention_precision" ->
         IF v = "fabricated_feature" THEN 100 ELSE IF v = "vague_substitution" THEN 96 ELSE 120
    [] m = "mention_recall" ->
         IF v = "omission" \/ v = "vague_substitution" THEN 96 ELSE 120
    [] m = "dsa_asserted" -> IF v = "sign_flip" THEN 96 ELSE 120
    [] m = "arc" -> IF v = "rank_inversion" THEN 108 ELSE 120
    [] m = "hfr" ->
         IF v = "fabricated_feature" THEN 20 ELSE IF v = "vague_substitution" THEN 24 ELSE 0

\* The claims of a variant.
Variation(v, told) == IF v = "faithful" THEN told ELSE Corrupt(v, told)

\* The five registered operators, in their order.
LEMMA FiveOperators ==
  ASSUME Registered
  PROVE  /\ Range(Operators) = OperatorNames /\ VariantNames = {"faithful"} \cup OperatorNames
         /\ Len(Operators) = 5
         /\ Operators[1] = "fabricated_feature" /\ Operators[2] = "sign_flip"
         /\ Operators[3] = "rank_inversion" /\ Operators[4] = "omission"
         /\ Operators[5] = "vague_substitution"
<1>1. Operators = RegisteredOperators
  BY DEF Registered
<1>2. DOMAIN RegisteredOperators = 1..5
  BY DEF RegisteredOperators
<1>3. /\ Len(Operators) = 5
      /\ Operators[1] = "fabricated_feature" /\ Operators[2] = "sign_flip"
      /\ Operators[3] = "rank_inversion" /\ Operators[4] = "omission"
      /\ Operators[5] = "vague_substitution"
  BY <1>1 DEF RegisteredOperators
<1>4. \A x : x \in Range(Operators) <=> \E i \in 1..5 : Operators[i] = x
  BY <1>1, <1>2 DEF Range
<1>5. \A i \in 1..5 : i = 1 \/ i = 2 \/ i = 3 \/ i = 4 \/ i = 5
  OBVIOUS
<1>6. Range(Operators) = OperatorNames
  <2>1. ASSUME NEW x \in Range(Operators) PROVE x \in OperatorNames
    BY <1>3, <1>4, <1>5 DEF OperatorNames
  <2>2. ASSUME NEW x \in OperatorNames PROVE x \in Range(Operators)
    <3>1. \E i \in 1..5 : Operators[i] = x
      BY <1>3 DEF OperatorNames
    <3> QED
      BY <1>4, <3>1
  <2> QED
    BY <2>1, <2>2
<1> QED
  BY <1>3, <1>6 DEF VariantNames

\* A claim list is scored as its variant is expected to be.
LEMMA OutcomesScore ==
  ASSUME NEW cs, NEW i, NEW p, NEW r, NEW d, NEW k, NEW h,
         Outcome(cs, i.attribution, p, r, d, k, h)
  PROVE  /\ Score("mention_precision", cs, i) = p /\ Score("mention_recall", cs, i) = r
         /\ Score("dsa_asserted", cs, i) = d /\ Score("arc", cs, i) = k
         /\ Score("hfr", cs, i) = h
BY DEF Outcome, Score

LEMMA ExpectedOf ==
  ASSUME NEW v
  PROVE  /\ Expected("mention_precision", v) =
              IF v = "fabricated_feature" THEN 100
              ELSE IF v = "vague_substitution" THEN 96 ELSE 120
         /\ Expected("mention_recall", v) =
              IF v = "omission" \/ v = "vague_substitution" THEN 96 ELSE 120
         /\ Expected("dsa_asserted", v) = IF v = "sign_flip" THEN 96 ELSE 120
         /\ Expected("arc", v) = IF v = "rank_inversion" THEN 108 ELSE 120
         /\ Expected("hfr", v) =
              IF v = "fabricated_feature" THEN 20
              ELSE IF v = "vague_substitution" THEN 24 ELSE 0
BY DEF Expected

LEMMA VariantsScore ==
  ASSUME Registered, NEW i, Wide(i.attribution), NEW v \in VariantNames, NEW m \in Judged
  PROVE  Score(m, Variation(v, FaithfulClaims(i.attribution)), i) = Expected(m, v)
<1> DEFINE a == i.attribution
           told == FaithfulClaims(a)
           cs == Variation(v, told)
<1>1. Scale = 120 /\ Unknown
  BY DEF Registered, Unknown
<1>2. v \in {"faithful"} \cup OperatorNames
  BY FiveOperators
<1>3. SUFFICES Outcome(cs, a, Expected("mention_precision", v), Expected("mention_recall", v),
                       Expected("dsa_asserted", v), Expected("arc", v), Expected("hfr", v))
  <2> HIDE DEF cs
  <2>1. ASSUME Outcome(cs, a, Expected("mention_precision", v), Expected("mention_recall", v),
                       Expected("dsa_asserted", v), Expected("arc", v), Expected("hfr", v))
        PROVE  /\ Score("mention_precision", cs, i) = Expected("mention_precision", v)
               /\ Score("mention_recall", cs, i) = Expected("mention_recall", v)
               /\ Score("dsa_asserted", cs, i) = Expected("dsa_asserted", v)
               /\ Score("arc", cs, i) = Expected("arc", v)
               /\ Score("hfr", cs, i) = Expected("hfr", v)
    BY <2>1, OutcomesScore
  <2>2. \/ m = "mention_precision" \/ m = "mention_recall" \/ m = "dsa_asserted"
        \/ m = "arc" \/ m = "hfr"
    BY DEF Judged
  <2> QED
    BY <2>1, <2>2 DEF cs
<1>4. CASE v = "faithful"
  <2>1. cs = told
    BY <1>4 DEF Variation
  <2>2. Outcome(cs, a, 120, 120, 120, 120, 0)
    BY <1>1, <2>1, FaithfulOutcome
  <2> HIDE DEF cs
  <2> QED
    BY <1>4, <2>2, ExpectedOf
<1>5. CASE v = "fabricated_feature"
  <2>1. cs = FabricatedFeature(told)
    BY <1>5 DEF Variation, Corrupt
  <2>2. Outcome(cs, a, 100, 120, 120, 120, 20)
    BY <1>1, <2>1, FabricatedOutcome
  <2> HIDE DEF cs
  <2> QED
    BY <1>5, <2>2, ExpectedOf
<1>6. CASE v = "sign_flip"
  <2>1. cs = SignFlip(told)
    BY <1>6 DEF Variation, Corrupt
  <2>2. Outcome(cs, a, 120, 120, 96, 120, 0)
    BY <1>1, <2>1, SignFlipOutcome
  <2> HIDE DEF cs
  <2> QED
    BY <1>6, <2>2, ExpectedOf
<1>7. CASE v = "rank_inversion"
  <2>1. cs = RankInversion(told)
    BY <1>7 DEF Variation, Corrupt
  <2>2. Outcome(cs, a, 120, 120, 120, 108, 0)
    BY <1>1, <2>1, RankInversionOutcome
  <2> HIDE DEF cs
  <2> QED
    BY <1>7, <2>2, ExpectedOf
<1>8. CASE v = "omission"
  <2>1. cs = Omission(told)
    BY <1>8 DEF Variation, Corrupt
  <2>2. Outcome(cs, a, 120, 96, 120, 120, 0)
    BY <1>1, <2>1, OmissionOutcome
  <2> HIDE DEF cs
  <2> QED
    BY <1>8, <2>2, ExpectedOf
<1>9. CASE v = "vague_substitution"
  <2>1. cs = VagueSubstitution(told)
    BY <1>9 DEF Variation, Corrupt
  <2>2. Outcome(cs, a, 96, 96, 120, 120, 24)
    BY <1>1, <2>1, VagueOutcome
  <2> HIDE DEF cs
  <2> QED
    BY <1>9, <2>2, ExpectedOf
<1> QED
  BY <1>2, <1>4, <1>5, <1>6, <1>7, <1>8, <1>9 DEF OperatorNames

\* The attributions of the registered battery are wide.
LEMMA InstancesAreWide ==
  ASSUME Registered, NEW names \in ClassLists, NEW i, Prepared(i, names)
  PROVE  Wide(i.attribution)
<1>1. PICK head \in HeadsOf(names) : \E shap \in ShapsOf(names) :
        /\ HeadAccepted([classes |-> names, head |-> head])
        /\ i = InstanceOf([classes |-> names, head |-> head], shap)
  BY DEF Prepared
<1> DEFINE d == [classes |-> names, head |-> head]
<1>2. PICK shap \in ShapsOf(names) : HeadAccepted(d) /\ i = InstanceOf(d, shap)
  BY <1>1
<1>3. i.attribution = Attribute(d, shap)
  BY <1>2 DEF InstanceOf
<1>4. d.classes = names /\ Met(d)
  BY <1>2 DEF Met
<1> HIDE DEF d
<1>5. PICK c \in 1..Len(d.classes) : Explained(d) = d.classes[c]
  BY <1>4, TargetsAreExplained
<1>6. Attribute(d, shap) = shap[c]
  BY <1>4, <1>5, ColumnsAreFound DEF Attribute
<1>7. DOMAIN d.classes = 1..Len(d.classes)
  BY <1>4, DetectorsReport
<1>8. c \in DOMAIN shap /\ IsAttribution(shap[c])
  BY <1>4, <1>7, DetectorAssumption
<1>9. Len(shap[c]) >= TopK /\ TopK = 5
  BY <1>8 DEF Registered
<1> QED
  BY <1>3, <1>6, <1>8, <1>9 DEF Wide

\* The registered points divide what is expected of a metric's own operators from
\* what is expected of the faithful claims.
LEMMA PointsDivide ==
  ASSUME NEW m \in Judged
  PROVE  /\ ~ Calls(Expected(m, "faithful"), RegisteredPoints[m], LowerIsCorrupt(m))
         /\ \A op \in OperatorNames :
              m \in RegisteredDesignations[op]
                => Calls(Expected(m, op), RegisteredPoints[m], LowerIsCorrupt(m))
         /\ LowerIsCorrupt(m) = (m # "hfr")
         /\ \A op \in OperatorNames : RegisteredDesignations[op] \subseteq Judged
<1>1. LowerIsCorrupt(m) = (m # "hfr")
  BY DEF LowerIsCorrupt, Judged
<1>2. /\ RegisteredPoints["mention_precision"] = 220 /\ RegisteredPoints["mention_recall"] = 216
      /\ RegisteredPoints["dsa_asserted"] = 216 /\ RegisteredPoints["arc"] = 228
      /\ RegisteredPoints["hfr"] = 20
  BY DEF RegisteredPoints
<1>3. /\ RegisteredDesignations["fabricated_feature"] = {"hfr", "mention_precision"}
      /\ RegisteredDesignations["sign_flip"] = {"dsa_asserted"}
      /\ RegisteredDesignations["rank_inversion"] = {"arc"}
      /\ RegisteredDesignations["omission"] = {"mention_recall"}
      /\ RegisteredDesignations["vague_substitution"] = {"mention_recall", "hfr"}
  <2>1. \A i \in 1..5 : RegisteredOperators[i] \in Range(RegisteredOperators)
    BY DEF RegisteredOperators, Range
  <2>2. /\ RegisteredOperators[1] = "fabricated_feature"
        /\ RegisteredOperators[2] = "sign_flip" /\ RegisteredOperators[3] = "rank_inversion"
        /\ RegisteredOperators[4] = "omission" /\ RegisteredOperators[5] = "vague_substitution"
    BY DEF RegisteredOperators
  <2>3. /\ "fabricated_feature" \in Range(RegisteredOperators)
        /\ "sign_flip" \in Range(RegisteredOperators)
        /\ "rank_inversion" \in Range(RegisteredOperators)
        /\ "omission" \in Range(RegisteredOperators)
        /\ "vague_substitution" \in Range(RegisteredOperators)
    BY <2>1, <2>2
  <2> QED
    BY <2>3 DEF RegisteredDesignations
<1>4. \A op \in OperatorNames : RegisteredDesignations[op] \subseteq Judged
  BY <1>3 DEF OperatorNames, Judged
<1>5. CASE m = "mention_precision"
  <2>1. /\ Expected(m, "faithful") = 120 /\ Expected(m, "fabricated_feature") = 100
    BY <1>5, ExpectedOf
  <2>2. \A op \in OperatorNames : m \in RegisteredDesignations[op] => op = "fabricated_feature"
    BY <1>3, <1>5 DEF OperatorNames
  <2>3. LowerIsCorrupt(m) /\ RegisteredPoints[m] = 220
    BY <1>1, <1>2, <1>5
  <2>5. ~ Calls(Expected(m, "faithful"), RegisteredPoints[m], LowerIsCorrupt(m))
    BY <2>1, <2>3 DEF Calls
  <2>6. ASSUME NEW op \in OperatorNames, m \in RegisteredDesignations[op]
        PROVE  Calls(Expected(m, op), RegisteredPoints[m], LowerIsCorrupt(m))
    <3>1. Expected(m, op) \in {100}
      BY <2>1, <2>2, <2>6
    <3> QED
      BY <2>3, <3>1 DEF Calls
  <2> QED
    BY <1>1, <1>4, <2>5, <2>6
<1>6. CASE m = "mention_recall"
  <2>1. /\ Expected(m, "faithful") = 120 /\ Expected(m, "omission") = 96
        /\ Expected(m, "vague_substitution") = 96
    BY <1>6, ExpectedOf
  <2>2. \A op \in OperatorNames :
          m \in RegisteredDesignations[op] => op = "omission" \/ op = "vague_substitution"
    BY <1>3, <1>6 DEF OperatorNames
  <2>3. LowerIsCorrupt(m) /\ RegisteredPoints[m] = 216
    BY <1>1, <1>2, <1>6
  <2>5. ~ Calls(Expected(m, "faithful"), RegisteredPoints[m], LowerIsCorrupt(m))
    BY <2>1, <2>3 DEF Calls
  <2>6. ASSUME NEW op \in OperatorNames, m \in RegisteredDesignations[op]
        PROVE  Calls(Expected(m, op), RegisteredPoints[m], LowerIsCorrupt(m))
    <3>1. Expected(m, op) \in {96}
      BY <2>1, <2>2, <2>6
    <3> QED
      BY <2>3, <3>1 DEF Calls
  <2> QED
    BY <1>1, <1>4, <2>5, <2>6
<1>7. CASE m = "dsa_asserted"
  <2>1. Expected(m, "faithful") = 120 /\ Expected(m, "sign_flip") = 96
    BY <1>7, ExpectedOf
  <2>2. \A op \in OperatorNames : m \in RegisteredDesignations[op] => op = "sign_flip"
    BY <1>3, <1>7 DEF OperatorNames
  <2>3. LowerIsCorrupt(m) /\ RegisteredPoints[m] = 216
    BY <1>1, <1>2, <1>7
  <2>5. ~ Calls(Expected(m, "faithful"), RegisteredPoints[m], LowerIsCorrupt(m))
    BY <2>1, <2>3 DEF Calls
  <2>6. ASSUME NEW op \in OperatorNames, m \in RegisteredDesignations[op]
        PROVE  Calls(Expected(m, op), RegisteredPoints[m], LowerIsCorrupt(m))
    <3>1. Expected(m, op) \in {96}
      BY <2>1, <2>2, <2>6
    <3> QED
      BY <2>3, <3>1 DEF Calls
  <2> QED
    BY <1>1, <1>4, <2>5, <2>6
<1>8. CASE m = "arc"
  <2>1. Expected(m, "faithful") = 120 /\ Expected(m, "rank_inversion") = 108
    BY <1>8, ExpectedOf
  <2>2. \A op \in OperatorNames : m \in RegisteredDesignations[op] => op = "rank_inversion"
    BY <1>3, <1>8 DEF OperatorNames
  <2>3. LowerIsCorrupt(m) /\ RegisteredPoints[m] = 228
    BY <1>1, <1>2, <1>8
  <2>5. ~ Calls(Expected(m, "faithful"), RegisteredPoints[m], LowerIsCorrupt(m))
    BY <2>1, <2>3 DEF Calls
  <2>6. ASSUME NEW op \in OperatorNames, m \in RegisteredDesignations[op]
        PROVE  Calls(Expected(m, op), RegisteredPoints[m], LowerIsCorrupt(m))
    <3>1. Expected(m, op) \in {108}
      BY <2>1, <2>2, <2>6
    <3> QED
      BY <2>3, <3>1 DEF Calls
  <2> QED
    BY <1>1, <1>4, <2>5, <2>6
<1>9. CASE m = "hfr"
  <2>1. /\ Expected(m, "faithful") = 0 /\ Expected(m, "fabricated_feature") = 20
        /\ Expected(m, "vague_substitution") = 24
    BY <1>9, ExpectedOf
  <2>2. \A op \in OperatorNames :
          m \in RegisteredDesignations[op] => op = "fabricated_feature" \/ op = "vague_substitution"
    BY <1>3, <1>9 DEF OperatorNames
  <2>3. ~ LowerIsCorrupt(m) /\ RegisteredPoints[m] = 20
    BY <1>1, <1>2, <1>9
  <2>5. ~ Calls(Expected(m, "faithful"), RegisteredPoints[m], LowerIsCorrupt(m))
    BY <2>1, <2>3 DEF Calls
  <2>6. ASSUME NEW op \in OperatorNames, m \in RegisteredDesignations[op]
        PROVE  Calls(Expected(m, op), RegisteredPoints[m], LowerIsCorrupt(m))
    <3>1. Expected(m, op) \in {20, 24}
      BY <2>1, <2>2, <2>6
    <3> QED
      BY <2>3, <3>1 DEF Calls
  <2> QED
    BY <1>1, <1>4, <2>5, <2>6
<1> QED
  BY <1>5, <1>6, <1>7, <1>8, <1>9 DEF Judged

\* So they are what the samples' operating points are.
LEMMA PointsAreRegistered ==
  ASSUME Scale = 120, NEW m \in Judged, NEW f, Sample(f), NEW c, Sample(c), DOMAIN f # {},
         Range(f) = {Expected(m, "faithful")},
         Range(c) = {Expected(m, op) : op \in OperatorNames}
  PROVE  OperatingPoint(f, c, LowerIsCorrupt(m)) = RegisteredPoints[m]
<1>1. LowerIsCorrupt(m) = (m # "hfr")
  BY PointsDivide
<1>2. /\ RegisteredPoints["mention_precision"] = 220 /\ RegisteredPoints["mention_recall"] = 216
      /\ RegisteredPoints["dsa_asserted"] = 216 /\ RegisteredPoints["arc"] = 228
      /\ RegisteredPoints["hfr"] = 20
  BY DEF RegisteredPoints
<1>3. Range(c) = {Expected(m, "fabricated_feature"), Expected(m, "sign_flip"),
                  Expected(m, "rank_inversion"), Expected(m, "omission"),
                  Expected(m, "vague_substitution")}
  BY DEF OperatorNames
<1>4. CASE m = "mention_precision"
  <2>1. Range(f) = {120} /\ Range(c) = {100, 120, 96}
    <3>1. /\ Expected(m, "faithful") = 120 /\ Expected(m, "fabricated_feature") = 100
          /\ Expected(m, "sign_flip") = 120 /\ Expected(m, "rank_inversion") = 120
          /\ Expected(m, "omission") = 120 /\ Expected(m, "vague_substitution") = 96
      BY <1>4, ExpectedOf
    <3> QED
      BY <1>3, <3>1
  <2>2. OperatingPoint(f, c, TRUE) = 220
    BY <2>1, PrecisionPoint
  <2> QED
    BY <1>1, <1>2, <1>4, <2>2
<1>5. CASE m = "mention_recall" \/ m = "dsa_asserted"
  <2>0. PICK y \in Nat : y = 96
    OBVIOUS
  <2>1. Range(f) = {120} /\ Range(c) = {120, y}
    <3>1. CASE m = "mention_recall"
      <4>1. /\ Expected(m, "faithful") = 120 /\ Expected(m, "fabricated_feature") = 120
            /\ Expected(m, "sign_flip") = 120 /\ Expected(m, "rank_inversion") = 120
            /\ Expected(m, "omission") = 96 /\ Expected(m, "vague_substitution") = 96
        BY <3>1, ExpectedOf
      <4> QED
        BY <1>3, <2>0, <4>1
    <3>2. CASE m = "dsa_asserted"
      <4>1. /\ Expected(m, "faithful") = 120 /\ Expected(m, "fabricated_feature") = 120
            /\ Expected(m, "sign_flip") = 96 /\ Expected(m, "rank_inversion") = 120
            /\ Expected(m, "omission") = 120 /\ Expected(m, "vague_substitution") = 120
        BY <3>2, ExpectedOf
      <4> QED
        BY <1>3, <2>0, <4>1
    <3> QED
      BY <1>5, <3>1, <3>2
  <2>2. y \in Nat /\ y < 120
    BY <2>0
  <2>3. y + 120 = 216
    BY <2>0
  <2>4. \A x : x \in Range(c) <=> x = 120 \/ x = y
    BY <2>1
  <2>5. OperatingPoint(f, c, TRUE) = y + 120
    BY <2>1, <2>2, <2>4, LowerPoint
  <2> QED
    <3>1. LowerIsCorrupt(m) = TRUE
      BY <1>1, <1>5
    <3>2. RegisteredPoints[m] = 216
      BY <1>2, <1>5
    <3> QED
      BY <2>3, <2>5, <3>1, <3>2
<1>6. CASE m = "arc"
  <2>0. PICK y \in Nat : y = 108
    OBVIOUS
  <2>1. Range(f) = {120} /\ Range(c) = {120, y}
    <3>1. /\ Expected(m, "faithful") = 120 /\ Expected(m, "fabricated_feature") = 120
          /\ Expected(m, "sign_flip") = 120 /\ Expected(m, "rank_inversion") = 108
          /\ Expected(m, "omission") = 120 /\ Expected(m, "vague_substitution") = 120
      BY <1>6, ExpectedOf
    <3> QED
      BY <1>3, <2>0, <3>1
  <2>2. y \in Nat /\ y < 120
    BY <2>0
  <2>3. y + 120 = 228
    BY <2>0
  <2>4. \A x : x \in Range(c) <=> x = 120 \/ x = y
    BY <2>1
  <2>5. OperatingPoint(f, c, TRUE) = y + 120
    BY <2>1, <2>2, <2>4, LowerPoint
  <2> QED
    BY <1>1, <1>2, <1>6, <2>5, <2>3
<1>7. CASE m = "hfr"
  <2>1. Range(f) = {0} /\ Range(c) = {0, 20, 24}
    <3>1. /\ Expected(m, "faithful") = 0 /\ Expected(m, "fabricated_feature") = 20
          /\ Expected(m, "sign_flip") = 0 /\ Expected(m, "rank_inversion") = 0
          /\ Expected(m, "omission") = 0 /\ Expected(m, "vague_substitution") = 24
      BY <1>7, ExpectedOf
    <3> QED
      BY <1>3, <3>1
  <2>2. OperatingPoint(f, c, FALSE) = 20
    BY <2>1, StrangersPoint
  <2> QED
    BY <1>1, <1>2, <1>7, <2>2
<1> QED
  BY <1>4, <1>5, <1>6, <1>7 DEF Judged

(***************************************************************************)
(* The inductive invariant of the registered battery.                      *)
(***************************************************************************)
\* Every score is the one expected of its metric and variant.
AsExpected ==
  \A m \in Judged, v \in VariantNames :
    \A p \in DOMAIN scores[m][v] : scores[m][v][p] = Expected(m, v)

\* Every variant of an instance is scored once, in the order of the operators.
InStep ==
  /\ Scored <= NInstances
  /\ Len(pending) <= 5
  /\ \A j \in 1..Len(pending) : pending[j] = Operators[5 - Len(pending) + j]
  /\ \A m \in Judged : Len(scores[m]["faithful"]) = Scored
  /\ \A m \in Judged, j \in 1..5 :
       Len(scores[m][Operators[j]])
         = IF j > 5 - Len(pending) THEN Scored - 1 ELSE Scored

\* What the gate says of a metric once all the variants are scored.
LEMMA Judgement ==
  ASSUME Registered, BatteryInductive, AsExpected, NEW m \in Judged,
         \A v \in VariantNames : Len(scores[m][v]) = NInstances
  PROVE  /\ Summary(m).threshold = RegisteredPoints[m] /\ Summary(m).spec = NInstances
         /\ \A op \in OperatorNames :
              m \in Designated[op] => Summary(m).sens[op] = NInstances
<1> DEFINE f == scores[m]["faithful"]
           c == Corrupted(m)
           low == LowerIsCorrupt(m)
           t == OperatingPoint(f, c, low)
<1>1. /\ NInstances \in Nat \ {0} /\ Scale = 120 /\ m \in Metrics
      /\ Range(Operators) = OperatorNames /\ VariantNames = {"faithful"} \cup OperatorNames
      /\ Designated = RegisteredDesignations
  BY BatteryAssumption, FiveOperators DEF Registered, Judged, Metrics
<1>2. ASSUME NEW v \in VariantNames
      PROVE  /\ DOMAIN scores[m][v] = 1..NInstances /\ Len(scores[m][v]) = NInstances
             /\ Sample(scores[m][v])
             /\ \A p \in 1..NInstances : scores[m][v][p] = Expected(m, v)
  <2>1. scores[m][v] \in Seq(Int)
    BY <1>1 DEF BatteryInductive
  <2>2. DOMAIN scores[m][v] = 1..NInstances /\ Len(scores[m][v]) = NInstances
    BY <2>1, LenProperties
  <2>3. \A p \in 1..NInstances : scores[m][v][p] \in Int
    BY <2>1, <2>2, LenProperties
  <2>4. IsFiniteSet(1..NInstances)
    BY <1>1, FS_Interval
  <2> QED
    BY <2>2, <2>3, <2>4 DEF Sample, AsExpected
<1>3. Sample(f) /\ Sample(c)
  BY <1>1, CorruptedIsASample
<1>4. DOMAIN f = 1..NInstances /\ Range(f) = {Expected(m, "faithful")}
  <2>1. "faithful" \in VariantNames
    BY DEF VariantNames
  <2>2. DOMAIN f = 1..NInstances /\ \A p \in 1..NInstances : f[p] = Expected(m, "faithful")
    BY <1>2, <2>1
  <2>3. 1 \in 1..NInstances
    BY <1>1
  <2> HIDE DEF f
  <2> QED
    BY <2>2, <2>3 DEF Range
<1>5. Range(c) = {Expected(m, op) : op \in OperatorNames}
  <2>1. c = [p \in UNION {{op} \X (DOMAIN scores[m][op]) : op \in OperatorNames} |->
               scores[m][p[1]][p[2]]]
    BY <1>1 DEF Corrupted
  <2>2. \A op \in OperatorNames : /\ DOMAIN scores[m][op] = 1..NInstances
                                  /\ \A p \in 1..NInstances : scores[m][op][p] = Expected(m, op)
    BY <1>1, <1>2
  <2> HIDE DEF c
  <2>3. \A p : p \in DOMAIN c <=> \E op \in OperatorNames : p \in {op} \X (1..NInstances)
    BY <2>1, <2>2, ZenonT(30)
  <2>4. ASSUME NEW x \in Range(c) PROVE x \in {Expected(m, op) : op \in OperatorNames}
    <3>1. PICK p \in DOMAIN c : x = c[p]
      BY DEF Range
    <3>2. PICK op \in OperatorNames : p \in {op} \X (1..NInstances)
      BY <2>3, <3>1
    <3>3. p[1] = op /\ p[2] \in 1..NInstances
      BY <3>2
    <3>4. c[p] = scores[m][p[1]][p[2]]
      BY <2>1, <3>1
    <3> QED
      BY <2>2, <3>1, <3>3, <3>4
  <2>5. ASSUME NEW op \in OperatorNames PROVE Expected(m, op) \in Range(c)
    <3> DEFINE p == <<op, 1>>
    <3>1. 1 \in 1..NInstances
      BY <1>1
    <3>2. p[1] = op /\ p[2] = 1 /\ p \in {op} \X (1..NInstances)
      BY <3>1
    <3>3. p \in DOMAIN c
      BY <2>3, <3>2
    <3> HIDE DEF p
    <3>4. c[p] = scores[m][op][1]
      BY <2>1, <3>2, <3>3
    <3> QED
      BY <2>2, <3>1, <3>3, <3>4 DEF Range
  <2> QED
    BY <2>4, <2>5
<1>6. t = RegisteredPoints[m]
  <2> HIDE DEF f, c
  <2>1. DOMAIN f # {}
    <3>1. 1 \in DOMAIN f
      BY <1>1, <1>4
    <3> QED
      BY <3>1
  <2> QED
    BY <1>1, <1>3, <1>4, <1>5, <2>1, PointsAreRegistered
<1>7. /\ Summary(m).threshold = t /\ Summary(m).spec = Len(f) - Called(f, t, low)
      /\ Summary(m).sens = [op \in Range(Operators) |-> Called(scores[m][op], t, low)]
  BY DEF Summary
<1> HIDE DEF t
<1>8. Called(f, t, low) = 0
  <2>1. ~ Calls(Expected(m, "faithful"), t, low)
    BY <1>6, PointsDivide
  <2>2. \A p \in DOMAIN f : f[p] = Expected(m, "faithful")
    BY <1>4 DEF Range
  <2> HIDE DEF f, low
  <2> QED
    BY <1>3, <2>1, <2>2, CalledIsACount
<1>9. ASSUME NEW op \in OperatorNames, m \in Designated[op]
      PROVE  Called(scores[m][op], t, low) = NInstances
  <2> DEFINE s == scores[m][op]
  <2>1. Calls(Expected(m, op), t, low)
    BY <1>1, <1>6, <1>9, PointsDivide
  <2>2. /\ DOMAIN s = 1..NInstances /\ Sample(s)
        /\ \A p \in 1..NInstances : s[p] = Expected(m, op)
    BY <1>1, <1>2
  <2> HIDE DEF s, low
  <2>3. Called(s, t, low) = Cardinality(DOMAIN s)
    <3>1. \A p \in DOMAIN s : Calls(s[p], t, low)
      BY <2>1, <2>2
    <3> QED
      BY <2>2, <3>1, CalledIsACount
  <2>4. Cardinality(1..NInstances) = NInstances
    BY <1>1, FS_Interval
  <2> QED
    BY <2>2, <2>3, <2>4 DEF s
<1>10. Len(f) = NInstances
  BY <1>2 DEF VariantNames
<1> HIDE DEF f, low
<1>11. Summary(m).spec = NInstances
  BY <1>1, <1>7, <1>8, <1>10
<1>12. \A op \in OperatorNames : m \in Designated[op] => Summary(m).sens[op] = NInstances
  BY <1>1, <1>7, <1>9
<1> QED
  BY <1>6, <1>7, <1>11, <1>12

\* A recorded score is appended to its own list.
LEMMA RecordingAppends ==
  ASSUME scores \in [Metrics -> [VariantNames -> Seq(Int)]], NEW v \in VariantNames,
         NEW m \in Metrics, NEW cs, NEW i, NEW e \in Int, Score(m, cs, i) = e
  PROVE  /\ \A w \in VariantNames : w # v => Recorded(v, cs, i)[m][w] = scores[m][w]
         /\ Len(Recorded(v, cs, i)[m][v]) = Len(scores[m][v]) + 1
         /\ \A p \in DOMAIN Recorded(v, cs, i)[m][v] :
              \/ p \in DOMAIN scores[m][v] /\ Recorded(v, cs, i)[m][v][p] = scores[m][v][p]
              \/ Recorded(v, cs, i)[m][v][p] = e
<1> DEFINE old == scores[m][v]
           new == Recorded(v, cs, i)[m]
<1>1. scores[m] \in [VariantNames -> Seq(Int)] /\ old \in Seq(Int)
  OBVIOUS
<1>2. new = [scores[m] EXCEPT ![v] = Append(old, e)]
  BY DEF Recorded
<1> HIDE DEF new
<1>3. new[v] = Append(old, e) /\ \A w \in VariantNames : w # v => new[w] = scores[m][w]
  BY <1>1, <1>2
<1> HIDE DEF old
<1>4. /\ Append(old, e) \in Seq(Int) /\ Len(Append(old, e)) = Len(old) + 1
      /\ \A p \in 1..Len(old) : Append(old, e)[p] = old[p]
      /\ Append(old, e)[Len(old) + 1] = e
  BY <1>1, AppendProperties
<1>5. DOMAIN Append(old, e) = 1..Len(Append(old, e)) /\ DOMAIN old = 1..Len(old) /\ Len(old) \in Nat
  BY <1>1, <1>4, LenProperties
<1>6. \A p \in 1..(Len(old) + 1) : p \in 1..Len(old) \/ p = Len(old) + 1
  BY <1>5
<1>7. \A p \in DOMAIN new[v] : (p \in DOMAIN old /\ new[v][p] = old[p]) \/ new[v][p] = e
  BY <1>3, <1>4, <1>5, <1>6
<1> QED
  BY <1>3, <1>4, <1>7 DEF new, old

\* What is expected is a number.
LEMMA ExpectedIsAnInteger ==
  ASSUME NEW m \in Judged, NEW v
  PROVE  Expected(m, v) \in Int
BY ExpectedOf DEF Judged

\* Recording an instance's variant keeps every score as expected.
LEMMA RecordingIsExpected ==
  ASSUME Registered, scores \in [Metrics -> [VariantNames -> Seq(Int)]], AsExpected,
         NEW v \in VariantNames, NEW i, Wide(i.attribution), NEW cs,
         cs = Variation(v, FaithfulClaims(i.attribution)),
         scores' = Recorded(v, cs, i)
  PROVE  /\ AsExpected'
         /\ \A m \in Judged, w \in VariantNames :
              Len(scores'[m][w]) = IF w = v THEN Len(scores[m][w]) + 1 ELSE Len(scores[m][w])
<1>1. ASSUME NEW m \in Judged, NEW w \in VariantNames
      PROVE  /\ \A p \in DOMAIN scores'[m][w] : scores'[m][w][p] = Expected(m, w)
             /\ Len(scores'[m][w]) = IF w = v THEN Len(scores[m][w]) + 1 ELSE Len(scores[m][w])
  <2> DEFINE e == Expected(m, v)
  <2>1. m \in Metrics
    BY DEF Judged, Metrics
  <2>2. Score(m, cs, i) = e /\ e \in Int
    BY VariantsScore, ExpectedIsAnInteger
  <2>3. \A p \in DOMAIN scores[m][w] : scores[m][w][p] = Expected(m, w)
    BY DEF AsExpected
  <2> HIDE DEF e
  <2>4. /\ w # v => scores'[m][w] = scores[m][w]
        /\ Len(scores'[m][v]) = Len(scores[m][v]) + 1
        /\ \A p \in DOMAIN scores'[m][v] :
             \/ p \in DOMAIN scores[m][v] /\ scores'[m][v][p] = scores[m][v][p]
             \/ scores'[m][v][p] = e
    BY <2>1, <2>2, RecordingAppends
  <2>5. CASE w = v
    BY <2>3, <2>4, <2>5 DEF e
  <2>6. CASE w # v
    BY <2>3, <2>4, <2>6
  <2> QED
    BY <2>5, <2>6
<1> QED
  BY <1>1 DEF AsExpected

\* Nothing is scored at first.
LEMMA SeparableInit == Registered /\ Init => AsExpected /\ InStep /\ EveryPairSeparates
<1> SUFFICES ASSUME Registered, Init PROVE AsExpected /\ InStep /\ EveryPairSeparates
  OBVIOUS
<1>1. /\ pending = <<>> /\ verdict = None
      /\ \A m \in Metrics, v \in VariantNames : scores[m][v] = <<>>
  BY DEF Init
<1>2. Judged \subseteq Metrics /\ "hfr" \in Judged
  BY DEF Judged, Metrics
<1>3. \A m \in Judged, v \in VariantNames : scores[m][v] = <<>>
  BY <1>1, <1>2
<1>4. Len(<<>>) = 0 /\ DOMAIN <<>> = {}
  OBVIOUS
<1>5. AsExpected
  BY <1>3, <1>4 DEF AsExpected
<1>6. "faithful" \in VariantNames /\ \A j \in 1..5 : Operators[j] \in VariantNames
  <2>1. \A j \in 1..5 : j = 1 \/ j = 2 \/ j = 3 \/ j = 4 \/ j = 5
    OBVIOUS
  <2> QED
    BY <2>1, FiveOperators DEF OperatorNames
<1>7. Scored = 0 /\ NInstances \in Nat /\ Len(pending) = 0
  BY <1>1, <1>2, <1>3, <1>6, BatteryAssumption DEF Scored
<1>8. \A m \in Judged : Len(scores[m]["faithful"]) = 0
  BY <1>3, <1>6
<1>9. \A m \in Judged, j \in 1..5 : Len(scores[m][Operators[j]]) = 0
  BY <1>3, <1>6
<1>10. \A j \in 1..5 : ~ (j > 5 - Len(pending))
  BY <1>7
<1>11. InStep
  BY <1>7, <1>8, <1>9, <1>10 DEF InStep
<1> QED
  BY <1>1, <1>5, <1>11 DEF EveryPairSeparates

\* Every step scores what is expected, in its turn, and the gate then passes.
LEMMA SeparableStep ==
  ASSUME Registered, BatteryInductive, AsExpected, InStep, EveryPairSeparates, [Next]_vars
  PROVE  AsExpected' /\ InStep' /\ EveryPairSeparates'
<1>1. CASE UNCHANGED vars
  <2>1. scores' = scores /\ pending' = pending /\ verdict' = verdict
    BY <1>1 DEF vars
  <2>2. Scored' = Scored
    BY <2>1 DEF Scored
  <2> QED
    BY <2>1, <2>2 DEF AsExpected, InStep, EveryPairSeparates
<1>0. /\ scores \in [Metrics -> [VariantNames -> Seq(Int)]] /\ NInstances \in Nat
      /\ "faithful" \in VariantNames /\ OperatorNames \subseteq VariantNames
      /\ "faithful" \notin OperatorNames /\ "hfr" \in Judged /\ Judged \subseteq Metrics
  BY FiveOperators, BatteryAssumption DEF BatteryInductive, OperatorNames, Judged, Metrics
<1>2. /\ \A j \in 1..5 : Operators[j] \in OperatorNames
      /\ \A j, k \in 1..5 : Operators[j] = Operators[k] => j = k
  <2>1. \A j \in 1..5 : j = 1 \/ j = 2 \/ j = 3 \/ j = 4 \/ j = 5
    OBVIOUS
  <2> QED
    BY <2>1, FiveOperators DEF OperatorNames
<1>3. /\ \A m \in Judged, v \in VariantNames : Len(scores[m][v]) \in Nat
      /\ Scored \in Nat /\ Len(pending) \in 0..5
  <2>1. \A m \in Judged, v \in VariantNames : Len(scores[m][v]) \in Nat
    BY <1>0, LenProperties
  <2>2. Len(pending) \in Nat
    BY LenProperties DEF BatteryInductive
  <2>3. Scored \in Nat
    BY <1>0, <2>1 DEF Scored
  <2>4. Len(pending) <= 5
    BY DEF InStep
  <2>5. Len(pending) \in 0..5
    <3> DEFINE l == Len(pending)
    <3>1. l \in Nat /\ l <= 5
      BY <2>2, <2>4
    <3> HIDE DEF l
    <3>2. l \in 0..5
      BY <3>1
    <3> QED
      BY <3>2 DEF l
  <2> QED
    BY <2>1, <2>3, <2>5
<1>4. CASE Explain
  <2>1. PICK head \in HeadsOf(classes) : \E shap \in ShapsOf(classes) :
          LET d == [classes |-> classes, head |-> head]
          IN /\ HeadAccepted(d)
             /\ instance' = InstanceOf(d, shap)
             /\ scores' = Recorded("faithful", instance'.faithful, instance')
    BY <1>4 DEF Explain
  <2>2. Prepared(instance', classes) /\ classes \in ClassLists
    BY <2>1 DEF Prepared, BatteryInductive
  <2>3. scores' = Recorded("faithful", instance'.faithful, instance')
    BY <2>1
  <2>4. /\ Wide(instance'.attribution)
        /\ instance'.faithful = FaithfulClaims(instance'.attribution)
    BY <2>2, InstancesAreWide, InstancesAreSound
  <2>5. instance'.faithful = Variation("faithful", FaithfulClaims(instance'.attribution))
    BY <2>4 DEF Variation
  <2>6. /\ AsExpected'
        /\ \A m \in Judged, w \in VariantNames :
             Len(scores'[m][w])
               = IF w = "faithful" THEN Len(scores[m][w]) + 1 ELSE Len(scores[m][w])
    BY <1>0, <2>3, <2>4, <2>5, RecordingIsExpected
  <2>7. /\ instance = None /\ Scored < NInstances /\ pending' = Operators
        /\ verdict' = verdict /\ verdict = None /\ pending = <<>>
    BY <1>4 DEF Explain, BatteryInductive
  <2>8. Len(pending) = 0 /\ Len(pending') = 5
    BY <2>7, FiveOperators
  <2>9. \A m \in Judged : Len(scores[m]["faithful"]) = Scored
    BY DEF InStep
  <2>10. \A m \in Judged, j \in 1..5 : Len(scores[m][Operators[j]]) = Scored
    <3>1. \A j \in 1..5 : ~ (j > 5 - Len(pending))
      BY <2>8
    <3> QED
      BY <3>1 DEF InStep
  <2>11. Scored' = Scored + 1
    BY <1>0, <2>6, <2>9 DEF Scored
  <2>12. \A m \in Judged : Len(scores'[m]["faithful"]) = Scored'
    BY <1>0, <2>6, <2>9, <2>11
  <2>13. \A m \in Judged, j \in 1..5 : Len(scores'[m][Operators[j]]) = Scored' - 1
    <3> TAKE m \in Judged, j \in 1..5
    <3>1. Operators[j] \in VariantNames /\ Operators[j] # "faithful"
      BY <1>0, <1>2
    <3>2. Len(scores'[m][Operators[j]]) = Scored
      BY <2>6, <2>10, <3>1
    <3> QED
      BY <1>3, <2>11, <3>2
  <2>14. \A j \in 1..5 : j > 5 - Len(pending') /\ pending'[j] = Operators[5 - Len(pending') + j]
    BY <2>7, <2>8
  <2>15. Scored' <= NInstances
    BY <1>0, <1>3, <2>7, <2>11
  <2>16. InStep'
    BY <2>8, <2>12, <2>13, <2>14, <2>15 DEF InStep
  <2> QED
    BY <2>6, <2>7, <2>16 DEF EveryPairSeparates
<1>5. CASE Inject
  <2> DEFINE n == Len(pending)
             k == 6 - n
             op == pending[1]
  <2>1. /\ pending # <<>> /\ pending' = Tail(pending)
        /\ scores' = Recorded(op, Corrupt(op, instance.faithful), instance)
        /\ verdict' = verdict
    BY <1>5 DEF Inject
  <2>2. instance # None /\ Prepared(instance, classes) /\ verdict = None /\ classes \in ClassLists
    BY <2>1 DEF BatteryInductive
  <2>3. n \in 1..5 /\ Len(pending') = n - 1 /\ \A j \in 1..(n - 1) : pending'[j] = pending[j + 1]
    <3>1. pending \in Seq(Range(Operators))
      BY DEF BatteryInductive
    <3>2. n # 0
      BY <2>1, <3>1, EmptySeq
    <3>3. n \in 1..5
      BY <1>3, <3>2
    <3>4. /\ Len(Tail(pending)) = n - 1
          /\ \A j \in 1..Len(Tail(pending)) : Tail(pending)[j] = pending[j + 1]
      BY <2>1, <3>1, HeadTailProperties
    <3> QED
      BY <2>1, <3>3, <3>4
  <2> HIDE DEF n
  <2>4. k \in 1..5 /\ op = Operators[k] /\ op \in OperatorNames
    <3>1. 1 \in 1..n /\ 5 - n + 1 = k /\ k \in 1..5
      BY <2>3
    <3>2. op = Operators[k]
      BY <3>1 DEF InStep, n
    <3> QED
      BY <1>2, <3>1, <3>2
  <2> HIDE DEF op, k
  <2>5. /\ Wide(instance.attribution)
        /\ instance.faithful = FaithfulClaims(instance.attribution)
    BY <2>2, InstancesAreWide, InstancesAreSound
  <2>6. Corrupt(op, instance.faithful) = Variation(op, FaithfulClaims(instance.attribution))
    BY <1>0, <2>4, <2>5 DEF Variation
  <2>7. /\ AsExpected'
        /\ \A m \in Judged, w \in VariantNames :
             Len(scores'[m][w]) = IF w = op THEN Len(scores[m][w]) + 1 ELSE Len(scores[m][w])
    BY <1>0, <2>1, <2>4, <2>5, <2>6, RecordingIsExpected
  <2>8. \A m \in Judged : Len(scores'[m]["faithful"]) = Len(scores[m]["faithful"])
    BY <1>0, <2>4, <2>7
  <2>9. Scored' = Scored
    BY <1>0, <2>8 DEF Scored
  <2>10. \A m \in Judged : Len(scores'[m]["faithful"]) = Scored'
    BY <2>8, <2>9 DEF InStep
  <2>11. ASSUME NEW m \in Judged, NEW j \in 1..5
         PROVE  Len(scores'[m][Operators[j]])
                  = IF j > 5 - Len(pending') THEN Scored' - 1 ELSE Scored'
    <3>1. Operators[j] \in VariantNames
      BY <1>0, <1>2
    <3>2. Len(scores[m][Operators[j]]) = IF j > 5 - n THEN Scored - 1 ELSE Scored
      BY DEF InStep, n
    <3>3. Len(scores'[m][Operators[j]])
            = IF j = k THEN Len(scores[m][Operators[j]]) + 1 ELSE Len(scores[m][Operators[j]])
      BY <1>2, <2>4, <2>7, <3>1
    <3>4. (j > 5 - n <=> j >= k) /\ (j > 5 - (n - 1) <=> j > k) /\ k \in Int /\ Scored - 1 + 1 = Scored
      BY <1>3, <2>3 DEF k
    <3>5. CASE j = k
      BY <2>3, <2>9, <3>2, <3>3, <3>4, <3>5
    <3>6. CASE j # k
      BY <2>3, <2>9, <3>2, <3>3, <3>4, <3>6
    <3> QED
      BY <3>5, <3>6
  <2>12. \A j \in 1..Len(pending') : pending'[j] = Operators[5 - Len(pending') + j]
    <3> TAKE j \in 1..Len(pending')
    <3>1. j \in 1..(n - 1) /\ j + 1 \in 1..n /\ 5 - n + (j + 1) = 5 - Len(pending') + j
      BY <2>3
    <3>2. pending'[j] = pending[j + 1]
      BY <2>3, <3>1
    <3>3. pending[j + 1] = Operators[5 - n + (j + 1)]
      BY <3>1 DEF InStep, n
    <3> QED
      BY <3>1, <3>2, <3>3
  <2>13. Len(pending') <= 5 /\ Scored' <= NInstances
    BY <2>3, <2>9 DEF InStep
  <2>14. InStep'
    BY <2>10, <2>11, <2>12, <2>13 DEF InStep
  <2> QED
    BY <2>1, <2>2, <2>7, <2>14 DEF EveryPairSeparates
<1>6. CASE Judge
  <2>1. /\ instance = None /\ Scored = NInstances /\ pending' = pending /\ scores' = scores
        /\ pending = <<>>
    BY <1>6 DEF Judge, BatteryInductive
  <2>2. Scored' = Scored /\ AsExpected' /\ InStep'
    <3>1. Scored' = Scored
      BY <2>1 DEF Scored
    <3> QED
      BY <2>1, <3>1 DEF AsExpected, InStep
  <2>3. Len(pending) = 0
    BY <2>1
  <2>4. ASSUME NEW m \in Judged, NEW v \in VariantNames PROVE Len(scores[m][v]) = NInstances
    <3>1. CASE v = "faithful"
      BY <2>1, <3>1 DEF InStep
    <3>2. CASE v # "faithful"
      <4>1. v \in OperatorNames
        BY <3>2, FiveOperators
      <4>2. PICK j \in 1..5 : v = Operators[j]
        BY <4>1, FiveOperators DEF OperatorNames
      <4>3. ~ (j > 5 - Len(pending))
        BY <2>3
      <4> QED
        BY <2>1, <4>2, <4>3 DEF InStep
    <3> QED
      BY <3>1, <3>2
  <2>5. ASSUME NEW m \in Judged
        PROVE  /\ Summary(m).threshold = RegisteredPoints[m] /\ Summary(m).spec = NInstances
               /\ \A op \in OperatorNames :
                    m \in Designated[op] => Summary(m).sens[op] = NInstances
    BY <2>4, Judgement
  <2> DEFINE summaries == [m \in Metrics |-> Summary(m)]
             mine == {m \in Metrics : \E op \in Range(Operators) : m \in Designated[op]}
             fit == {m \in mine : Admissible(m, summaries[m])}
  <2>6. verdict' = [passed |-> fit = mine, admissible |-> fit, summaries |-> summaries]
    BY <1>6 DEF Judge
  <2>7. /\ Range(Operators) = OperatorNames /\ Designated = RegisteredDesignations
        /\ SensPercent = 90 /\ SpecPercent = 90 /\ RegisteredPoint = RegisteredPoints
    BY FiveOperators DEF Registered
  <2>8. \A op \in OperatorNames : Designated[op] \subseteq Judged
    BY <1>0, <2>7, PointsDivide
  <2>9. 100 * NInstances >= 90 * NInstances
    BY <1>0
  <2>10. ASSUME NEW m \in Judged PROVE Admissible(m, Summary(m))
    <3> DEFINE s == Summary(m)
    <3>1. s.spec = NInstances /\ \A op \in OperatorNames : m \in Designated[op] => s.sens[op] = NInstances
      BY <2>5
    <3> HIDE DEF s
    <3>2. Admissible(m, s)
      BY <2>7, <2>9, <3>1 DEF Admissible
    <3> QED
      BY <3>2 DEF s
  <2>11. \A m \in Judged : summaries[m] = Summary(m)
    BY <1>0
  <2> HIDE DEF summaries
  <2>12. mine \subseteq Judged /\ \A op \in Range(Operators) : Designated[op] \subseteq mine
    BY <1>0, <2>7, <2>8
  <2>13. fit = mine
    BY <2>10, <2>11, <2>12
  <2> HIDE DEF fit, mine
  <2>14. verdict'.passed /\ verdict'.admissible = mine /\ verdict'.summaries = summaries
    BY <2>6, <2>13
  <2>15. \A op \in Range(Operators) : \A m \in Designated[op] :
           m \in verdict'.admissible /\ verdict'.summaries[m].sens[op] = NInstances
    BY <2>5, <2>7, <2>8, <2>11, <2>12, <2>14
  <2>16. DOMAIN RegisteredPoint = Judged
    BY <2>7 DEF RegisteredPoints, Judged
  <2>17. \A m \in DOMAIN RegisteredPoint : verdict'.summaries[m].threshold = RegisteredPoint[m]
    BY <2>5, <2>7, <2>11, <2>14, <2>16
  <2> QED
    BY <2>2, <2>14, <2>15, <2>17 DEF EveryPairSeparates
<1> QED
  BY <1>1, <1>4, <1>5, <1>6 DEF Next

\* With the operators, designations, thresholds and top_k that are registered, the
\* gate passes at the registered operating points, whatever the detectors are and
\* the attributions of at least top_k features (rq0_gate.py, decision_thresholds.yaml).
THEOREM RegisteredPairsSeparate ==
  ASSUME Registered
  PROVE  Spec => []EveryPairSeparates
<1> DEFINE Inv == BatteryInductive /\ AsExpected /\ InStep /\ EveryPairSeparates
<1>1. Init => Inv
  BY SeparableInit, BatteryInductiveInit
<1>2. Inv /\ [Next]_vars => Inv'
  BY SeparableStep, BatteryInductiveStep
<1>3. Inv => EveryPairSeparates
  OBVIOUS
<1> HIDE DEF Inv
<1> QED
  BY <1>1, <1>2, <1>3, PTL DEF Spec
===============================================================================
