------------------------------- MODULE MCLaunch --------------------------------
(* The TLC instance of Launch: a model's registered study and a smoke test *)
(* of the same model.                                                      *)
EXTENDS Launch

Registered == [model |-> "qwen", n |-> ""]
Smoke == [model |-> "qwen", n |-> "20"]
RegisteredAndSmoke == {Registered, Smoke}

SmallerSmoke == [s \in RegisteredAndSmoke |-> IF s = Smoke THEN {"b2"} ELSE {"b2", "b4"}]

TwoDrafts == [c \in {"b2", "b4"} |-> IF c = "b4" THEN {"a", "b"} ELSE {"a"}]

Pinned == [model |-> "a", template |-> "b"]

\* The pinned build with a license, one whose template was replaced, and one
\* with a system prompt on top.
PulledBuilds ==
  {Pinned, [model |-> "a", template |-> "b", license |-> "c"],
   [model |-> "a", template |-> "d"],
   [model |-> "a", template |-> "b", system |-> "e"]}
===============================================================================
