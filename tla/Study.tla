-------------------------------- MODULE Study --------------------------------
(***************************************************************************)
(* What a Tier-A study promises, whatever sessions, time budgets and kills *)
(* it took: every model call is answered once, and a published run is the  *)
(* one a single unbudgeted pass over those answers writes                  *)
(* (orchestration/execute.py, run_pilot: "the run is the one an unbudgeted *)
(* score step writes").                                                    *)
(***************************************************************************)
EXTENDS TierALedgers

VARIABLE runs \* the run records written

Ready(R) ==
  \A c \in R : /\ HasDraft(c) /\ HasVerdict(c)
               /\ ext[Shown(c)] # None /\ jud[Shown(c)] # None

Init == NoAnswers /\ runs = {}

Draft(c, t) ==
  /\ gen[c] = None
  /\ gen' = [gen EXCEPT ![c] = t]
  /\ UNCHANGED <<ver, ext, jud, runs>>

Verify(k, t, v) ==
  /\ ver[k][t] = None
  /\ ver' = [ver EXCEPT ![k][t] = v]
  /\ UNCHANGED <<gen, ext, jud, runs>>

Extract(t, x) ==
  /\ ext[t] = None
  /\ ext' = [ext EXCEPT ![t] = x]
  /\ UNCHANGED <<gen, ver, jud, runs>>

Judge(t, s) ==
  /\ jud[t] = None
  /\ jud' = [jud EXCEPT ![t] = s]
  /\ UNCHANGED <<gen, ver, ext, runs>>

Publish(R) ==
  /\ Ready(R)
  /\ runs' = runs \cup
       {[roster |-> R, rows |-> [c \in R |-> Row(c)], items |-> Cardinality(R),
         calls |-> CallsOnRecord]}
  /\ UNCHANGED ledgers

Next ==
  \/ \E c \in Drafted, t \in Texts : Draft(c, t)
  \/ \E k \in Cases, t \in Texts, v \in Verdicts : Verify(k, t, v)
  \/ \E t \in Texts, x \in Claims : Extract(t, x)
  \/ \E t \in Texts, s \in Scores : Judge(t, s)
  \/ \E R \in Rosters : Publish(R)

vars == <<gen, ver, ext, jud, runs>>

Spec == Init /\ [][Next]_vars
==============================================================================
