------------------------------ MODULE MCAnnotator ------------------------------
(* The TLC instance of Annotator: one item that lists one feature of two.  *)
EXTENDS Annotator

OneListed == [i \in {"i1"} |-> {"f1"}]
===============================================================================
