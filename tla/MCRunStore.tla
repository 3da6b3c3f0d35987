------------------------------ MODULE MCRunStore ------------------------------
(* TLC instances of RunStore.                                              *)
EXTENDS RunStore, TLC

CONSTANTS c1, c2

\* The second commit bumps the extractor version.
Bumped == [c \in {c1, c2} |-> IF c = c1 THEN "1.0" ELSE "1.1"]

\* Processes differ in nothing but their name.
Processes == Permutations(Procs)
===============================================================================
