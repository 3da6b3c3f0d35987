------------------------------- MODULE MCBattery -------------------------------
(* TLC instances of Battery: the registered corruption config, with the    *)
(* generators' top_k of 5 and a detector of six features.                  *)
EXTENDS Battery

Features == <<"a", "b", "c", "d", "e", "f">>

\* The texts play no part: every feature is named by itself.
OwnNames == [i \in DOMAIN Features |-> [words |-> <<Features[i]>>, canon |-> Features[i]]]

\* Orders, signs, equal magnitudes and zeros.
Values ==
  {<<6, 5, 4, 3, 2, 1>>, <<-1, 2, -3, 4, -5, 6>>, <<2, -2, 2, -2, 2, -2>>,
   <<0, 0, 0, 0, 0, 0>>, <<-3, 0, 3, 0, 1, -1>>, <<0, -1, 5, -5, 0, 2>>}

Rows(v) == [i \in DOMAIN Features |-> [feature |-> Features[i], value |-> v[i]]]

\* One class has the vector, the others its negation.
SmallShaps(names) ==
  {[i \in DOMAIN names |-> Rows(IF i = Len(names) THEN v ELSE [j \in 1..6 |-> -v[j]])] :
     v \in Values}

SmallClassLists == {<<"BENIGN", "ATTACK">>, <<"BENIGN", "DoS", "PortScan">>}

\* An instance whose class changes once a is erased, one that barely reacts, one
\* on the boundary that needs half of the features, and one of another class.
SmallHeads(names) ==
  LET After(F(_)) == [erased \in SUBSET Range(Features) |-> F(erased)]
  IN IF Len(names) = 2
     THEN {After(LAMBDA e : IF "a" \in e THEN <<3>> ELSE <<9>>),
           After(LAMBDA e : IF e = Range(Features) THEN <<4>> ELSE <<1>>),
           After(LAMBDA e : IF Cardinality(e) >= 3 THEN <<6>> ELSE <<5>>),
           After(LAMBDA e : IF Cardinality(e) \in {1, 5} THEN <<2>> ELSE <<7>>)}
     ELSE {After(LAMBDA e : IF "a" \in e THEN <<7, 2, 1>> ELSE <<1, 8, 1>>),
           After(LAMBDA e : IF e = Range(Features) THEN <<4, 3, 3>> ELSE <<10, 0, 0>>),
           After(LAMBDA e : IF Cardinality(e) >= 3 THEN <<2, 2, 6>> ELSE <<4, 4, 2>>),
           After(LAMBDA e : IF Cardinality(e) \in {1, 5} THEN <<7, 2, 1>> ELSE <<1, 3, 6>>)}

ASSUME RegisteredAssumption == Registered
===============================================================================
