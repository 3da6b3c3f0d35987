-------------------------------- MODULE TierA --------------------------------
(***************************************************************************)
(* A Tier-A experiment as its sessions run it (orchestration/cli.py,       *)
(* orchestration/execute.py run_pilot, orchestration/runner.py).           *)
(*                                                                         *)
(* A session is one step: "generate" fills the generation ledger, "verify" *)
(* the verifier ledger, and "score" verifies what is left ("pass1"),       *)
(* extracts and judges ahead of scoring when it runs on a time budget      *)
(* ("extract", "judge"), scores ("cells", "rate") and writes the run.      *)
(* Every model call goes through a ledger, so a session that stops at its  *)
(* budget, or is killed anywhere, is continued by the next one.            *)
(*                                                                         *)
(* Time: a budget can run out during any model call.  Replaying recorded   *)
(* calls takes no budget.                                                  *)
(***************************************************************************)
EXTENDS TierALedgers

CONSTANTS
  Rank,        \* the judge's seeded shuffle, as the rank of each cell
  Fatal,       \* judge replies parse_judge_scores raises on
  MaxCrashes   \* bound: how often sessions are killed

ASSUME TierAAssumption ==
  /\ Rank \in [Cells -> Nat]
  /\ \A c, d \in Cells : Rank[c] = Rank[d] => c = d
  /\ Fatal \subseteq Scores
  /\ MaxCrashes \in Nat

VARIABLES
  phase,       \* the pass the session is in; "idle" between sessions
  roster,      \* the cells of the session's generator list
  budgeted,    \* does the step run on a time budget?
  over,        \* has the budget run out?
  todo,        \* cells the pass has not reached
  loaded,      \* instrument models the Ollama server holds on the GPUs
  items,       \* _FallbackCounter.items of the session
  rows,        \* artifacts of the session's run_cells, by cell
  runs,        \* the run records written
  complete,    \* the steps that reported COMPLETE, with their roster
  crashes      \* how often a session was killed

session == <<phase, roster, budgeted, over, todo, items, rows>>
vars == <<gen, ver, ext, jud, session, loaded, runs, complete, crashes>>

Instruments == {"verifier", "extractor", "judge"}
Phases == {"idle", "generate", "verify", "pass1", "extract", "judge",
           "cells", "rate"}

Blank == [text |-> None, abstained |-> FALSE, claims |-> None, score |-> None]

Init ==
  /\ NoAnswers
  /\ phase = "idle" /\ roster = {} /\ budgeted = FALSE /\ over = FALSE
  /\ todo = {} /\ items = 0 /\ rows = [c \in Cells |-> Blank]
  /\ loaded = {} /\ runs = {} /\ complete = {} /\ crashes = 0

(***************************************************************************)
(* Passes.                                                                 *)
(***************************************************************************)

\* A pass takes the cells in generator-major order.
NextCell(c) == c \in todo /\ \A d \in todo : c <= d

\* The judge takes them in its shuffled order.
NextRated(c) == c \in todo /\ \A d \in todo : Rank[c] <= Rank[d]

\* The models _only_loaded unloads: the ones this session knows of.
Known == {"extractor", "judge"} \cup
         (IF roster \cap Verified # {} THEN {"verifier"} ELSE {})

OnlyLoaded(keep) == loaded \ (Known \ {keep})

\* A live call may use up the budget of the step it belongs to.
CallTakesTime == over' \in {over, budgeted}

Idle ==
  /\ phase' = "idle"
  /\ roster' = {} /\ budgeted' = FALSE /\ over' = FALSE /\ todo' = {}
  /\ items' = 0 /\ rows' = [c \in Cells |-> Blank]

StartStep(first, R, b, cells) ==
  /\ phase = "idle"
  /\ phase' = first
  /\ roster' = R /\ budgeted' = b /\ todo' = cells
  /\ UNCHANGED <<ledgers, over, items, rows, runs, complete, crashes>>

\* The pass's clock check before each item: out of time with work left.
StopAtBudget ==
  /\ phase \in {"generate", "verify", "extract", "judge"}
  /\ over /\ todo # {}
  /\ Idle
  /\ loaded' = IF phase = "verify" THEN loaded \ {"verifier"} ELSE loaded
  /\ UNCHANGED <<ledgers, runs, complete, crashes>>

\* A step that replays drafts meets one that was never generated: exit 4.
ReplayMiss(c) ==
  /\ phase \in {"verify", "pass1", "extract", "cells"}
  /\ NextCell(c) /\ ~over
  /\ ~HasDraft(c)
  /\ Idle
  /\ UNCHANGED <<ledgers, loaded, runs, complete, crashes>>

Reached(c) == todo' = todo \ {c}

(***************************************************************************)
(* The generate step.                                                      *)
(***************************************************************************)
StartGenerate(R, b) == StartStep("generate", R, b, R) /\ UNCHANGED loaded

\* Bug: a draft is not recorded when its call ends at the budget.
GenerateForgets(c) ==
  /\ phase = "generate"
  /\ NextCell(c) /\ ~over
  /\ CallTakesTime
  /\ \/ /\ HasDraft(c) \/ over'
        /\ UNCHANGED gen
     \/ /\ ~HasDraft(c) /\ ~over'
        /\ \E t \in Texts : gen' = [gen EXCEPT ![c] = t]
  /\ Reached(c)
  /\ UNCHANGED <<ver, ext, jud, phase, roster, budgeted, items, rows, loaded,
                 runs, complete, crashes>>

GenerateCell(c) ==
  /\ phase = "generate"
  /\ NextCell(c) /\ ~over
  /\ \/ /\ HasDraft(c)
        /\ UNCHANGED <<gen, over>>
     \/ /\ ~HasDraft(c)
        /\ \E t \in Texts : gen' = [gen EXCEPT ![c] = t]
        /\ CallTakesTime
  /\ Reached(c)
  /\ UNCHANGED <<ver, ext, jud, phase, roster, budgeted, items, rows, loaded,
                 runs, complete, crashes>>

\* Bug: a step that stops at its budget reports COMPLETE as well.
EndGenerateAtBudget ==
  /\ phase = "generate" /\ (todo = {} \/ over)
  /\ complete' = complete \cup {<<"generate", roster>>}
  /\ Idle
  /\ UNCHANGED <<ledgers, loaded, runs, crashes>>

EndGenerate ==
  /\ phase = "generate" /\ todo = {}
  /\ complete' = complete \cup {<<"generate", roster>>}
  /\ Idle
  /\ UNCHANGED <<ledgers, loaded, runs, crashes>>

(***************************************************************************)
(* The verifier pass: the whole verify step, and the score step's pass 1.  *)
(***************************************************************************)
StartVerifier(R) ==
  loaded' = IF R \cap Verified # {}
            THEN loaded \ {"extractor", "judge"} ELSE loaded

StartVerify(R, b) ==
  StartStep("verify", R, b, R \cap Verified) /\ StartVerifier(R)

\* The gates a score step must pass first are modelled in RunStore.
StartScore(R, b) ==
  StartStep("pass1", R, b, R \cap Verified) /\ StartVerifier(R)

VerifyCell(c) ==
  /\ phase \in {"verify", "pass1"}
  /\ NextCell(c) /\ ~over
  /\ HasDraft(c)
  /\ \/ /\ HasVerdict(c)
        /\ UNCHANGED <<ver, over, loaded>>
     \/ /\ ~HasVerdict(c)
        /\ \E v \in Verdicts : ver' = [ver EXCEPT ![Case[c]][gen[c]] = v]
        /\ loaded' = loaded \cup {"verifier"}
        /\ IF phase = "verify" THEN CallTakesTime ELSE UNCHANGED over
  /\ Reached(c)
  /\ UNCHANGED <<gen, ext, jud, phase, roster, budgeted, items, rows, runs,
                 complete, crashes>>

EndVerify ==
  /\ phase = "verify" /\ todo = {}
  /\ complete' = complete \cup {<<"verify", roster>>}
  /\ loaded' = IF roster \cap Verified # {}
               THEN loaded \ {"verifier"} ELSE loaded
  /\ Idle
  /\ UNCHANGED <<ledgers, runs, crashes>>

\* Pass 1 is over: pass 2 has the extractor's GPUs to itself.  On a budget the
\* model calls come first, otherwise scoring makes them as it goes.
EndPass1 ==
  /\ phase = "pass1" /\ todo = {}
  /\ phase' = IF budgeted THEN "extract" ELSE "cells"
  /\ todo' = roster
  /\ loaded' = OnlyLoaded("extractor")
  /\ UNCHANGED <<ledgers, roster, budgeted, over, items, rows, runs, complete,
                 crashes>>

(***************************************************************************)
(* The budgeted passes ahead of scoring (_score_passes).                   *)
(***************************************************************************)
\* Bug: the extractor is asked again for a text it has already read.
ExtractAgain(c) ==
  /\ \E x \in Claims : ext' = [ext EXCEPT ![Shown(c)] = x]
  /\ loaded' = loaded \cup {"extractor"}
  /\ IF phase = "extract" THEN CallTakesTime ELSE UNCHANGED over

\* One extraction call on what the cell shows.
ExtractShown(c) ==
  \/ /\ ext[Shown(c)] # None
     /\ UNCHANGED <<ext, over, loaded>>
  \/ /\ ext[Shown(c)] = None
     /\ \E x \in Claims : ext' = [ext EXCEPT ![Shown(c)] = x]
     /\ loaded' = loaded \cup {"extractor"}
     /\ IF phase = "extract" THEN CallTakesTime ELSE UNCHANGED over

ExtractCell(c) ==
  /\ phase = "extract"
  /\ NextCell(c) /\ ~over
  /\ HasDraft(c) /\ HasVerdict(c)
  /\ ExtractShown(c)
  /\ Reached(c)
  /\ UNCHANGED <<gen, ver, jud, phase, roster, budgeted, items, rows, runs,
                 complete, crashes>>

\* Bug: the extractor stays on the GPUs while the judge runs.
EndExtractLoaded ==
  /\ phase = "extract" /\ todo = {}
  /\ phase' = "judge"
  /\ todo' = roster
  /\ UNCHANGED <<ledgers, roster, budgeted, over, items, rows, runs, complete,
                 crashes, loaded>>

\* Every text is extracted: collect the shown texts again and load the judge.
EndExtract ==
  /\ phase = "extract" /\ todo = {}
  /\ phase' = "judge"
  /\ todo' = roster
  /\ loaded' = OnlyLoaded("judge")
  /\ UNCHANGED <<ledgers, roster, budgeted, over, items, rows, runs, complete,
                 crashes>>

\* One judge call on the text t.
Rate(t) ==
  \/ /\ jud[t] # None /\ jud[t] \notin Fatal
     /\ UNCHANGED <<jud, over, loaded>>
  \/ /\ jud[t] = None
     /\ \E s \in Scores \ Fatal : jud' = [jud EXCEPT ![t] = s]
     /\ loaded' = loaded \cup {"judge"}
     /\ IF phase = "judge" THEN CallTakesTime ELSE UNCHANGED over

JudgeCell(c) ==
  /\ phase = "judge"
  /\ NextRated(c) /\ ~over
  /\ Rate(Shown(c))
  /\ Reached(c)
  /\ UNCHANGED <<gen, ver, ext, phase, roster, budgeted, items, rows, runs,
                 complete, crashes>>

\* The reply holds the three ratings, but not as numbers: float() raises, and
\* the session ends.  The ledger keeps the reply.
JudgeRaises(c) ==
  /\ phase \in {"judge", "rate"}
  /\ NextRated(c) /\ ~over
  /\ \/ /\ jud[Shown(c)] \in Fatal
        /\ UNCHANGED <<jud, loaded>>
     \/ /\ jud[Shown(c)] = None
        /\ \E s \in Fatal : jud' = [jud EXCEPT ![Shown(c)] = s]
        /\ loaded' = loaded \cup {"judge"}
  /\ Idle
  /\ UNCHANGED <<gen, ver, ext, runs, complete, crashes>>

\* Bug: scoring starts when the budget runs out in the judge's pass.
EndJudgeAtBudget ==
  /\ phase = "judge" /\ (todo = {} \/ over)
  /\ phase' = "cells"
  /\ todo' = roster
  /\ loaded' = OnlyLoaded("extractor")
  /\ UNCHANGED <<ledgers, roster, budgeted, items, rows, runs, complete, crashes>>
  /\ over' = FALSE

EndJudge ==
  /\ phase = "judge" /\ todo = {}
  /\ phase' = "cells"
  /\ todo' = roster
  /\ loaded' = OnlyLoaded("extractor")
  /\ UNCHANGED <<ledgers, roster, budgeted, items, rows, runs, complete, crashes>>
  /\ over' = FALSE

(***************************************************************************)
(* Scoring: run_cells, the judge's pass 3, and the run.                    *)
(***************************************************************************)
\* Bug: an abstention's row keeps the draft.
ScoreDraft(c) ==
  /\ phase = "cells"
  /\ NextCell(c)
  /\ HasDraft(c) /\ HasVerdict(c)
  /\ ExtractShown(c)
  /\ items' = items + 1
  /\ rows' = [rows EXCEPT ![c] =
       [text |-> IF c \in Drafted THEN gen[c] ELSE Shown(c),
        abstained |-> Abstains(c), claims |-> ext'[Shown(c)], score |-> None]]
  /\ Reached(c)
  /\ UNCHANGED <<gen, ver, jud, phase, roster, budgeted, runs, complete, crashes>>

ScoreCell(c) ==
  /\ phase = "cells"
  /\ NextCell(c)
  /\ HasDraft(c) /\ HasVerdict(c)
  /\ ExtractShown(c)
  /\ items' = items + 1
  /\ rows' = [rows EXCEPT ![c] =
       [text |-> Shown(c), abstained |-> Abstains(c),
        claims |-> ext'[Shown(c)], score |-> None]]
  /\ Reached(c)
  /\ UNCHANGED <<gen, ver, jud, phase, roster, budgeted, runs, complete, crashes>>

EndCells ==
  /\ phase = "cells" /\ todo = {}
  /\ phase' = "rate"
  /\ todo' = roster
  /\ loaded' = OnlyLoaded("judge")
  /\ UNCHANGED <<ledgers, roster, budgeted, over, items, rows, runs, complete,
                 crashes>>

WithScore(row, s) ==
  [text |-> row.text, abstained |-> row.abstained, claims |-> row.claims,
   score |-> s]

RateCell(c) ==
  /\ phase = "rate"
  /\ NextRated(c)
  /\ Rate(rows[c].text)
  /\ rows' = [rows EXCEPT ![c] = WithScore(rows[c], jud'[rows[c].text])]
  /\ Reached(c)
  /\ UNCHANGED <<gen, ver, ext, phase, roster, budgeted, items, runs, complete,
                 crashes>>

WriteRun ==
  /\ phase = "rate" /\ todo = {}
  /\ runs' = runs \cup
       {[roster |-> roster, rows |-> [c \in roster |-> rows[c]],
         items |-> items, calls |-> CallsOnRecord]}
  /\ Idle
  /\ UNCHANGED <<ledgers, loaded, complete, crashes>>

(***************************************************************************)
(* The environment.                                                        *)
(***************************************************************************)
\* The model the next item of the pass would call.
Pending ==
  {m \in Instruments : \E c \in todo :
     \/ /\ m = "verifier" /\ phase \in {"verify", "pass1"}
        /\ NextCell(c) /\ HasDraft(c) /\ ~HasVerdict(c)
     \/ /\ m = "extractor" /\ phase \in {"extract", "cells"}
        /\ NextCell(c) /\ HasDraft(c) /\ ext[Shown(c)] = None
     \/ /\ m = "judge" /\ phase \in {"judge", "rate"}
        /\ NextRated(c) /\ jud[Shown(c)] = None}

\* The session is killed, or a provider call raises; its call in flight is
\* lost.  The server survives with its models, or dies with the session.
Crash ==
  /\ phase # "idle" /\ crashes < MaxCrashes
  /\ crashes' = crashes + 1
  /\ loaded' \in {{}, loaded, loaded \cup (IF over THEN {} ELSE Pending)}
  /\ Idle
  /\ UNCHANGED <<ledgers, runs, complete>>

\* Ollama drops a model it has not been asked for in a while.
Expire(m) ==
  /\ m \in loaded
  /\ loaded' = loaded \ {m}
  /\ UNCHANGED <<ledgers, session, runs, complete, crashes>>

Work ==
  \/ StopAtBudget
  \/ \E c \in Cells : \/ ReplayMiss(c)
                      \/ GenerateCell(c) \/ VerifyCell(c) \/ ExtractCell(c)
                      \/ JudgeCell(c) \/ JudgeRaises(c)
                      \/ ScoreCell(c) \/ RateCell(c)
  \/ EndGenerate \/ EndVerify \/ EndPass1 \/ EndExtract \/ EndJudge
  \/ EndCells \/ WriteRun

Start(R, b) ==
  \/ StartGenerate(R, b) \/ StartVerify(R, b) \/ StartScore(R, b)

Next ==
  \/ \E R \in Rosters, b \in BOOLEAN : Start(R, b)
  \/ Work
  \/ Crash
  \/ \E m \in Instruments : Expire(m)

Spec == Init /\ [][Next]_vars

\* A running session keeps working, and the operator launches each step again
\* until it reports COMPLETE (kaggle/README.md).
Fairness ==
  /\ WF_vars(Work)
  /\ \A R \in Rosters :
       /\ SF_vars(\E b \in BOOLEAN : StartGenerate(R, b))
       /\ SF_vars(\E b \in BOOLEAN : StartScore(R, b))

FairSpec == Spec /\ Fairness

(***************************************************************************)
(* Properties.                                                             *)
(***************************************************************************)
Answers(A) == A \cup {None}

RowType == [text: Answers(Texts), abstained: BOOLEAN,
            claims: Answers(Claims), score: Answers(Scores)]

TypeOK ==
  /\ gen \in [Cells -> Answers(Texts)]
  /\ ver \in [Cases -> [Texts -> Answers(Verdicts)]]
  /\ ext \in [Texts -> Answers(Claims)]
  /\ jud \in [Texts -> Answers(Scores)]
  /\ phase \in Phases
  /\ roster \in Rosters \/ (phase = "idle" /\ roster = {})
  /\ budgeted \in BOOLEAN /\ over \in BOOLEAN
  /\ todo \subseteq roster
  /\ loaded \subseteq Instruments
  /\ items \in Nat
  /\ rows \in [Cells -> RowType]
  /\ complete \subseteq {"generate", "verify"} \X Rosters
  /\ crashes \in 0..MaxCrashes

\* Whatever sessions produced it, a written run says what the ledgers say: each
\* of its rows is the shown text, claims and rating a replay computes today
\* (execute.py: "the run is the one an unbudgeted score step writes").
RunsReplay ==
  \A run \in runs : \A c \in run.roster :
    /\ run.rows[c] = Row(c)
    /\ HasDraft(c) /\ HasVerdict(c)
    /\ run.rows[c].claims # None /\ run.rows[c].score # None

\* After pass 1 no verdict is missing: run_cells reads every one of them "from
\* that ledger without the model" (execute.py:742), so the verifier is never
\* loaded beside another instrument.
VerdictsInPlace ==
  phase \in {"extract", "judge", "cells", "rate"} =>
    \A c \in roster \cap Verified : HasDraft(c) /\ HasVerdict(c)

\* A step that reported COMPLETE for a generator list left nothing to do: every
\* draft (verdict) of that list is in its ledger, kills and budgets included,
\* so no later step of that list can end in a replay miss.
CompleteMeansComplete ==
  \A R \in Rosters :
    /\ <<"generate", R>> \in complete => \A c \in R : HasDraft(c)
    /\ <<"verify", R>> \in complete =>
         \A c \in R \cap Verified : HasDraft(c) /\ HasVerdict(c)

\* Each instrument has the GPUs to itself (execute.py _only_loaded), also when
\* a session is killed and the server keeps its models.
OneModelAtATime == \A m, n \in loaded : m = n

\* Behind a budgeted score step's extract and judge passes, scoring replays
\* every call: it takes no model time that could outlast the session.
ScoringReplays ==
  [][budgeted /\ phase \in {"cells", "rate"} => UNCHANGED ledgers]_vars

\* A Tier-A study done in sessions implements the study: answers are recorded
\* once, and what is published is computed from them.
Promise == INSTANCE Study
ImplementsStudy == Promise!Spec

\* Launched again and again, the steps finish: every study gets its run, unless
\* the judge's reply to one of its texts is one whose parsing raises.
EveryStudyPublishes ==
  \A R \in Rosters : <>(\/ \E run \in runs : run.roster = R
                       \/ \E t \in Texts : jud[t] \in Fatal)
==============================================================================
