-------------------------------- MODULE MCAudit --------------------------------
(* TLC instances of Audit.                                                 *)
EXTENDS Audit

\* Three explanations: one template text and two of B4, of which one is drawn.
Run == <<<<"i1", "b1">>, <<"i1", "b4">>, <<"i2", "b4">>>>
OneEach == [g \in {"b1", "b4"} |-> 1]
Lenient == [e \in {Run[k] : k \in 1..3} |-> IF e = Run[1] THEN {"f1"} ELSE {"f1", "f2"}]
NoneClaimed == [e \in {Run[k] : k \in 1..3} |-> {}]

Plus(f) == [g \in {f} |-> "+"]

Nothing == [f \in {} |-> "absent"]

\* The second annotator once names a feature that may not be a candidate.
ReplySets == <<{Plus("f1"), Nothing}, {Plus("f1"), Plus("f2")}>>

\* For two draws: agreement, or a dispute about a feature that was not listed.
FewerReplies == <<{Plus("f1")}, {Plus("f1"), Plus("f2")}>>

Parsed(d, e) == [f \in {"f1"} |-> [direction |-> d, evidence |-> e]]
ReadingSet == {Parsed("+", "word"), Parsed("+", "default")}
===============================================================================
