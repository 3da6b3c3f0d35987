-------------------------------- MODULE Splits --------------------------------
(***************************************************************************)
(* How many cases of each class the explained set takes from the gate      *)
(* pool (datasets/loaders/cicids2017.py, stratified_explanation_sample).   *)
(* Which cases of a class is the seeded permutation's choice and is left   *)
(* out; the counts are not.                                                *)
(***************************************************************************)
EXTENDS Integers, Sequences, FiniteSets, Functions

Smaller(a, b) == IF a < b THEN a ELSE b
Larger(a, b) == IF a > b THEN a ELSE b

\* The rows a count of each class stands for, numbered within their class.
RowsIn(count) == UNION {{c} \X (1..count[c]) : c \in DOMAIN count}

Total(count) == Cardinality(RowsIn(count))

\* The strata: the classes the held-out pool has rows of.
Strata(pool) == {c \in DOMAIN pool : pool[c] > 0}

\* What each class's quota takes of the pool: an equal share of n, or the
\* minority floor where that is more, or all there is.
Picks(pool, n, floor) ==
  LET share == Larger(1, n \div Larger(1, Cardinality(Strata(pool))))
  IN [c \in DOMAIN pool |->
        Smaller(pool[c], Larger(share, Smaller(floor, pool[c])))]

\* Bug: over-quota picks are dropped from the end of the pool.  In the legacy
\* "index" truncation, which K-way runs must not use, that is the last files'
\* classes ("order" is the order of the classes' blocks in the pool).
IndexTruncation(picks, n, order) ==
  LET Before(c) == {d \in DOMAIN picks :
                      \E i, j \in DOMAIN order : order[i] = d /\ order[j] = c /\ i < j}
  IN [c \in DOMAIN picks |->
        Smaller(picks[c],
                Larger(0, n - Total([d \in Before(c) |-> picks[d]])))]

Index(order, c) == CHOOSE i \in DOMAIN order : order[i] = c

\* "round_robin" takes one pick per class and round, the classes in order: what
\* it takes before c's pick of a round.
Earlier(picks, order, c, round) ==
  {x \in RowsIn(picks) :
     x[2] < round \/ (x[2] = round /\ Index(order, x[1]) < Index(order, c))}

\* It stops at n.
Kept(picks, n, order, c) ==
  {round \in 1..picks[c] : Cardinality(Earlier(picks, order, c, round)) < n}

RoundRobin(picks, n, order) ==
  [c \in DOMAIN picks |-> Cardinality(Kept(picks, n, order, c))]

\* How many rows of each class are explained; the rest of the pool is the
\* competence split.
Explained(pool, n, floor, order) ==
  LET picks == Picks(pool, n, floor)
  IN IF Total(picks) > n THEN RoundRobin(picks, n, order) ELSE picks

Competence(pool, explained) == [c \in DOMAIN pool |-> pool[c] - explained[c]]

\* What a split must be for the gate to mean anything: no row twice, the
\* budget kept, every stratum explained while the budget allows, and no class
\* two rows ahead of one the pool has more of.
SplitSound(pool, n, explained) ==
  LET strata == Strata(pool)
  IN /\ \A c \in DOMAIN pool : explained[c] \in 0..pool[c]
     /\ Total(explained) <= n
     /\ Cardinality(strata) <= n => \A c \in strata : explained[c] > 0
     /\ \A c, d \in strata :
          explained[c] > explained[d] + 1 => explained[d] = pool[d]
=============================================================================
