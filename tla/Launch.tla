-------------------------------- MODULE Launch ---------------------------------
(***************************************************************************)
(* The chain of Kaggle sessions a Tier-A study is run in                   *)
(* (kaggle/tier_a/tier_a_launcher.ipynb).  A session starts from nothing,  *)
(* restores the call ledgers of the datasets attached to it, runs one      *)
(* phase of one study, and exports every ledger it holds; the operator     *)
(* attaches that export to the next session.                               *)
(*                                                                         *)
(* What a phase does between two calls is TierA's; here it makes the calls *)
(* its ledgers lack, in an order of its own.  A draft stands for the text  *)
(* shown for its cell.  The operator attaches the newest export, as the    *)
(* notebook says, and perhaps an older one as well.                        *)
(***************************************************************************)
EXTENDS Naturals, FiniteSets

CONSTANTS
  Studies,     \* [model, n]: n is "" for the registered N, else a smoke test's
  CellsOf,     \* the explanations of each study, of whatever generator
  Verified,    \* those of B4 and B5
  Drafts,      \* what a generator may answer for each explanation
  Readers,     \* the instruments that read every text: extraction and judge
  Builds,      \* what a pull may fetch: the digest of each layer
  Pins,        \* the digests in the configs
  MaxFaults,   \* bound: failing steps, failing gates and killed sessions
  None

ASSUME LaunchAssumption ==
  /\ \A s \in Studies : IsFiniteSet(CellsOf[s])
  /\ \A s, t \in Studies : s.model = t.model /\ s.n = t.n => s = t
  /\ Readers \cap {"generation", "verifier"} = {}
  /\ Pins \in Builds /\ MaxFaults \in Nat
  /\ Pins = [l \in DOMAIN Pins |-> Pins[l]]

VARIABLES
  latest,      \* ledgers of the newest export
  kept,        \* ledgers of an older export the operator still attaches
  session,     \* the running session, or None
  published,   \* the Tier-A runs exported, with the tokens exported beside them
  faults

vars == <<latest, kept, session, published, faults>>

Kinds == {"generation", "verifier"} \cup Readers
Gates == {"EXP-G-001", "EXP-G-002"}
Phases == {"generate", "verify", "score"}

\* Bug: a smoke test's ledgers are the model's.
TagOfModel(s) == s.model

\* TAG: the name of a study's ledgers, one directory under each kind.
Tag(s) == <<s.model, s.n>>

Tags == {Tag(s) : s \in Studies}

(***************************************************************************)
(* Ledgers: a call recorded is a request and its answer, one line each.    *)
(***************************************************************************)
Empty == [r \in {} |-> None]
NoLedgers == [k \in Kinds |-> [t \in Tags |-> Empty]]

Lines(ledger) == Cardinality(DOMAIN ledger)

With(ledger, r, answer) ==
  [q \in DOMAIN ledger \cup {r} |-> IF q = r THEN answer ELSE ledger[q]]

Recorded(ledgers, k, s, r, answer) ==
  [ledgers EXCEPT ![k][Tag(s)] = With(@, r, answer)]

\* Bug: the copy with the fewest calls.
Fewest(copies) == CHOOSE l \in copies : \A m \in copies : Lines(l) <= Lines(m)

\* The copy with the most calls.
Best(copies) == CHOOSE l \in copies : \A m \in copies : Lines(m) <= Lines(l)

\* The restore cell, over the datasets attached.
Restored(inputs) ==
  [k \in Kinds |-> [t \in Tags |-> Best({e[k][t] : e \in inputs})]]

(***************************************************************************)
(* What a study asks.                                                      *)
(***************************************************************************)
Prompts(s) == {<<s, c>> : c \in CellsOf[s]}

\* Requests about the drafts on record: the draft is part of the request.
About(s, drafted, cells) ==
  {<<s, c, drafted[<<s, c>>]>> : c \in {d \in cells : <<s, d>> \in DOMAIN drafted}}

Requests(k, s, ledgers) ==
  LET drafted == ledgers["generation"][Tag(s)]
  IN CASE k = "generation" -> Prompts(s)
       [] k = "verifier"   -> About(s, drafted, CellsOf[s] \cap Verified)
       [] OTHER            -> About(s, drafted, CellsOf[s])

Due(k, s, ledgers) == Requests(k, s, ledgers) \ DOMAIN ledgers[k][Tag(s)]

AskedIn(phase) ==
  CASE phase = "generate" -> {"generation"}
    [] phase = "verify"   -> {"verifier"}
    [] phase = "score"    -> {"verifier"} \cup Readers

(***************************************************************************)
(* A session.                                                              *)
(***************************************************************************)
NoneServed == [k \in {} |-> None]

\* Parameters, restore, and the check that there is something to replay.
Start(phase, s, inputs) ==
  /\ session = None
  /\ LET ledgers == Restored(inputs)
     IN /\ phase # "generate" => DOMAIN ledgers["generation"][Tag(s)] # {}
        /\ session' = [phase |-> phase, study |-> s, ledgers |-> ledgers,
                       at |-> IF phase = "generate" THEN "step" ELSE "serve",
                       served |-> NoneServed, called |-> FALSE, tokens |-> {}, run |-> FALSE]
  /\ UNCHANGED <<latest, kept, published, faults>>

Running(at) == session # None /\ session.at = at

Fault == faults < MaxFaults /\ faults' = faults + 1

\* What an instrument's answers depend on.
Weights(build) == [l \in DOMAIN build \ {"license"} |-> build[l]]

\* Bug: a layer that the pins do not name goes unnoticed.
MatchesNamedPins(build) ==
  \A l \in DOMAIN Pins : l \in DOMAIN build /\ build[l] = Pins[l]

\* Every pinned layer and, but for the license, no other.
MatchesPins(build) ==
  /\ \A l \in DOMAIN Pins : l \in DOMAIN build /\ build[l] = Pins[l]
  /\ DOMAIN build \ {"license"} = DOMAIN Pins

\* An instrument of the phase is pulled, checked, warmed up and unloaded; one
\* that is not the pinned build stops the notebook before its export.  (The
\* extractor, one file instead of layers, is checked in the same way.)
Serve(k, build) ==
  LET served == [q \in DOMAIN session.served \cup {k} |->
                   IF q = k THEN Weights(build) ELSE session.served[q]]
      rest == (AskedIn(session.phase) \ {"generation"}) \ DOMAIN served
  IN /\ Running("serve")
     /\ k \in AskedIn(session.phase) \ DOMAIN session.served
     /\ \/ /\ MatchesPins(build)
           /\ session' = [session EXCEPT !.served = served,
                !.at = IF rest # {} THEN "serve"
                       ELSE IF session.phase = "score" THEN "EXP-G-001" ELSE "step"]
           /\ UNCHANGED faults
        \/ /\ ~MatchesPins(build) /\ Fault
           /\ session' = None
     /\ UNCHANGED <<latest, kept, published>>

\* A score session's gate runs.  Both commands exit 0 whatever their verdict, so
\* EXP-G-002 follows an EXP-G-001 that failed and the score step is launched after
\* either; only an error's exit code leads straight to the export.
GateRun(g) ==
  LET next == IF g = "EXP-G-001" THEN "EXP-G-002" ELSE "gated"
  IN /\ Running(g)
     /\ \/ /\ session' = [session EXCEPT !.tokens = @ \cup {g}, !.at = next]
           /\ UNCHANGED faults
        \/ /\ Fault
           /\ session' = [session EXCEPT !.at = next]
        \/ /\ Fault
           /\ session' = [session EXCEPT !.at = "export"]
     /\ UNCHANGED <<latest, kept, published>>

\* Bug: the exit codes of the gate runs are taken for their verdicts.
EnforceGatesByExitCode ==
  /\ Running("gated")
  /\ session' = [session EXCEPT !.at = "step"]
  /\ UNCHANGED <<latest, kept, published, faults>>

\* The score step starts with both tokens in this session's runs/, or fails.
EnforceGates ==
  /\ Running("gated")
  /\ session' = [session EXCEPT !.at = IF session.tokens = Gates THEN "step" ELSE "export"]
  /\ UNCHANGED <<latest, kept, published, faults>>

\* The drafts a verify or score step replays; a generate step makes its own.
Replayed(phase, s) ==
  CASE phase = "generate" -> {}
    [] phase = "verify"   -> CellsOf[s] \cap Verified
    [] phase = "score"    -> CellsOf[s]

Replays ==
  \A c \in Replayed(session.phase, session.study) :
    <<session.study, c>> \in DOMAIN session.ledgers["generation"][Tag(session.study)]

\* One model call, recorded.  A step that will miss a draft makes the calls of the
\* cells that come before it.
Call(k) ==
  /\ Running("step")
  /\ k \in AskedIn(session.phase)
  /\ \E r \in Due(k, session.study, session.ledgers) :
       \E answer \in (IF k = "generation" THEN Drafts[r[2]]
                       ELSE {session.served[k]}) :
         session' = [session EXCEPT
           !.ledgers = Recorded(@, k, session.study, r, answer), !.called = TRUE]
  /\ UNCHANGED <<latest, kept, published, faults>>

NothingDue ==
  \A k \in AskedIn(session.phase) : Due(k, session.study, session.ledgers) = {}

\* The step COMPLETE: a score step has written its run.
StepEnds ==
  /\ Running("step") /\ Replays /\ NothingDue
  /\ session' = [session EXCEPT !.at = "export", !.run = session.phase = "score"]
  /\ UNCHANGED <<latest, kept, published, faults>>

\* The step PARTIAL: its time budget is over, which lasts for a call at least.
StopsAtBudget ==
  /\ Running("step") /\ session.called /\ ~NothingDue
  /\ session' = [session EXCEPT !.at = "export"]
  /\ UNCHANGED <<latest, kept, published, faults>>

\* A ReplayMiss; the export cell still runs.
StepMisses ==
  /\ Running("step") /\ ~Replays
  /\ session' = [session EXCEPT !.at = "export"]
  /\ UNCHANGED <<latest, kept, published, faults>>

\* Any other failing step: STEP_RC keeps its code, and the export cell runs.
StepFails ==
  /\ Running("step") /\ Fault
  /\ session' = [session EXCEPT !.at = "export"]
  /\ UNCHANGED <<latest, kept, published>>

\* Bug: a session that did not finish its step exports nothing.
ExportOnSuccess ==
  /\ Running("export")
  /\ IF NothingDue
     THEN latest' = session.ledgers /\ kept' \in {kept, latest}
     ELSE UNCHANGED <<latest, kept>>
  /\ published' = IF session.run
                  THEN published \cup {[study |-> session.study, tokens |-> session.tokens]}
                  ELSE published
  /\ session' = None
  /\ UNCHANGED faults

\* Bug: only the ledgers of the session's own phase are exported.
ExportAsked ==
  /\ Running("export")
  /\ latest' = [k \in Kinds |-> IF k \in AskedIn(session.phase)
                                THEN session.ledgers[k] ELSE NoLedgers[k]]
  /\ kept' \in {kept, latest}
  /\ published' = IF session.run
                  THEN published \cup {[study |-> session.study, tokens |-> session.tokens]}
                  ELSE published
  /\ session' = None
  /\ UNCHANGED faults

\* "Export whatever exists, success or not": every ledger the session holds,
\* and the runs and tokens of this session.
Export ==
  /\ Running("export")
  /\ latest' = session.ledgers /\ kept' \in {kept, latest}
  /\ published' = IF session.run
                  THEN published \cup {[study |-> session.study, tokens |-> session.tokens]}
                  ELSE published
  /\ session' = None
  /\ UNCHANGED faults

\* Killed at Kaggle's limit: nothing of the session is saved.
Killed ==
  /\ session # None /\ Fault
  /\ session' = None
  /\ UNCHANGED <<latest, kept, published>>

Init ==
  /\ latest = NoLedgers /\ kept = NoLedgers
  /\ session = None /\ published = {} /\ faults = 0

Launched(phase, s) == \E older \in {latest, kept} : Start(phase, s, {latest, older})

Step ==
  \/ \E k \in Kinds, build \in Builds : Serve(k, build)
  \/ \E g \in Gates : GateRun(g)
  \/ EnforceGates
  \/ \E k \in Kinds : Call(k)
  \/ StepEnds \/ StopsAtBudget \/ StepMisses \/ StepFails
  \/ Export

Next ==
  \/ \E phase \in Phases, s \in Studies : Launched(phase, s)
  \/ Step
  \/ Killed

Spec == Init /\ [][Next]_vars

\* A session goes on, and the operator repeats each phase of each study.
Fairness ==
  /\ WF_vars(Step)
  /\ \A s \in Studies, phase \in Phases : SF_vars(Launched(phase, s))

FairSpec == Spec /\ Fairness

(***************************************************************************)
(* Properties.                                                             *)
(***************************************************************************)
\* One set of ledgers holds what another does, and more.
Within(older, newer) ==
  \A k \in Kinds, t \in Tags :
    LET a == older[k][t]  b == newer[k][t]
    IN DOMAIN a \subseteq DOMAIN b /\ \A r \in DOMAIN a : a[r] = b[r]

\* "Smoke ledgers never mix with the registered ones": the calls under a
\* study's tag are that study's.
TypeOK ==
  /\ faults \in 0..MaxFaults
  /\ \A k \in Kinds, s \in Studies :
       \A r \in DOMAIN latest[k][Tag(s)] : r[1] = s /\ r[2] \in CellsOf[s]
  /\ session # None => session.study \in Studies /\ session.phase \in Phases

\* No paid call is ever lost once it was exported: whatever older dataset is
\* attached beside the newest, however its ledgers' lengths compare, a session
\* holds every call of both, and so does every later export.
ChainNests ==
  /\ Within(kept, latest)
  /\ session # None => Within(latest, session.ledgers)

\* The two ledgers restored independently belong together: every instrument
\* call on record is about the draft on record for its cell.
InstrumentsReadTheseDrafts ==
  \A k \in Kinds \ {"generation"}, s \in Studies :
    \A r \in DOMAIN latest[k][Tag(s)] :
      LET drafted == latest["generation"][Tag(s)]
      IN <<s, r[2]>> \in DOMAIN drafted /\ drafted[<<s, r[2]>>] = r[3]

\* Whatever a registry serves under a tag on another day: every instrument call
\* on record, of every session of the chain, was answered by the pinned build.
InstrumentsArePinned ==
  \A k \in Kinds \ {"generation"}, t \in Tags :
    \A r \in DOMAIN latest[k][t] : latest[k][t][r] = Pins

\* A Tier-A run leaves Kaggle with both gates' tokens of its own session, and
\* with a ledger for every call it rests on.
RunsAreGatedAndWhole ==
  \A p \in published :
    /\ p.tokens = Gates
    /\ \A k \in Kinds : Due(k, p.study, latest) = {}

\* "Repeat until the log says COMPLETE": sessions that stop at their budget get
\* there, since what a partial session paid for is in its export.
EveryStudyIsPublished == \A s \in Studies : <>(\E p \in published : p.study = s)
===============================================================================
