------------------------------- MODULE MCTierA -------------------------------
(* TLC instances of TierA.                                                 *)
EXTENDS TierA

CONSTANTS t1, t2

\* One instance under B1, B2 and B4 (or B5).
OneDrafted == {2, 3}
OneVerified == {3}
OneCase == [c \in 1..3 |-> "i1"]
OneTemplate == [k \in {"i1"} |-> t1]
OneRank == <<3, 1, 2>>
OneRoster == {1..3}

\* Two instances under B1 and B4, or under B1 alone.
TwoDrafted == {3, 4}
TwoVerified == {3, 4}
TwoCase == <<"i1", "i2", "i1", "i2">>
TwoTemplate == [k \in {"i1", "i2"} |-> IF k = "i1" THEN t1 ELSE t2]
TwoRank == <<2, 4, 1, 3>>
TwoRosters == {1..4, 1..2}
==============================================================================
