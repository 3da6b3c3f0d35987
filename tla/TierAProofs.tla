------------------------------ MODULE TierAProofs ------------------------------
(***************************************************************************)
(* What TierA guarantees for every design: any number of cells, any        *)
(* generator lists, any texts, any number of kills; and that its runs are  *)
(* those of Study.                                                         *)
(***************************************************************************)
EXTENDS TierA, FiniteSetTheorems, TLAPS

USE StudyAssumption, TierAAssumption

(***************************************************************************)
(* The inductive invariant.  What a pass has done to the cells it is done  *)
(* with is in the ledgers; what scoring has put in a row is what the       *)
(* ledgers say of its cell.                                                *)
(***************************************************************************)
Extracted(c) == HasDraft(c) /\ ext[Shown(c)] # None

Rated(c) == jud[Shown(c)] # None /\ jud[Shown(c)] \notin Fatal

Scored(c) ==
  /\ Extracted(c)
  /\ rows[c] = [text |-> Shown(c), abstained |-> Abstains(c),
                claims |-> ext[Shown(c)], score |-> rows[c].score]

PassesDone ==
  /\ phase = "generate" => \A c \in roster \ todo : HasDraft(c)
  /\ phase \in {"verify", "pass1"} =>
       \A c \in (roster \cap Verified) \ todo : HasDraft(c) /\ HasVerdict(c)
  /\ phase = "extract" => \A c \in roster \ todo : Extracted(c)
  /\ phase = "judge" =>
       /\ \A c \in roster : Extracted(c)
       /\ \A c \in roster \ todo : Rated(c)

RowsScored ==
  /\ phase = "cells" => \A c \in roster \ todo : Scored(c)
  /\ phase = "rate" =>
       /\ \A c \in roster : Scored(c)
       /\ \A c \in roster \ todo :
            rows[c].score = jud[Shown(c)] /\ jud[Shown(c)] # None

BudgetedCallsMade ==
  phase \in {"cells", "rate"} /\ budgeted =>
    \A c \in roster : Extracted(c) /\ Rated(c)

SessionInv ==
  VerdictsInPlace /\ PassesDone /\ RowsScored /\ BudgetedCallsMade

RunRosters == \A run \in runs : run.roster \in Rosters

Inductive ==
  /\ TypeOK /\ SessionInv /\ CompleteMeansComplete
  /\ RunRosters /\ RunsReplay

(***************************************************************************)
(* Types.                                                                  *)
(***************************************************************************)
LEMMA AnAnswer ==
  ASSUME NEW A
  PROVE  None \in Answers(A) /\ \A x \in A : x \in Answers(A)
  BY DEF Answers

LEMMA BlankRow == Blank \in RowType
  BY DEF Blank, RowType, Answers

\* What an item's cell shows is a text.
LEMMA ShownIsText ==
  ASSUME TypeOK, NEW c \in Cells, HasDraft(c)
  PROVE  Shown(c) \in Texts
<1>1. Template[Case[c]] \in Texts
  OBVIOUS
<1>2. c \in Drafted => gen[c] \in Texts
  BY DEF TypeOK, HasDraft, Answers
<1> QED  BY <1>1, <1>2 DEF Shown

LEMMA TypeInit == Init => TypeOK
<1> SUFFICES ASSUME Init PROVE TypeOK
  OBVIOUS
<1>1. /\ gen \in [Cells -> Answers(Texts)]
      /\ ver \in [Cases -> [Texts -> Answers(Verdicts)]]
      /\ ext \in [Texts -> Answers(Claims)]
      /\ jud \in [Texts -> Answers(Scores)]
  BY AnAnswer DEF Init, NoAnswers
<1>2. rows \in [Cells -> RowType]
  BY BlankRow DEF Init
<1>3. complete \subseteq {"generate", "verify"} \X Rosters
  BY DEF Init
<1>4. /\ roster = {} /\ todo = {} /\ loaded = {} /\ phase = "idle"
      /\ items \in Nat /\ crashes \in 0..MaxCrashes
  BY DEF Init
<1>5. budgeted \in BOOLEAN /\ over \in BOOLEAN
  BY Zenon DEF Init
<1> QED  BY <1>1, <1>2, <1>3, <1>4, <1>5 DEF TypeOK, Phases

\* The end of a session leaves every ledger well typed.
LEMMA TypeIdle ==
  ASSUME TypeOK, Idle, UNCHANGED ledgers,
         loaded' \subseteq Instruments,
         complete' \subseteq {"generate", "verify"} \X Rosters,
         crashes' \in 0..MaxCrashes
  PROVE  TypeOK'
  BY BlankRow DEF TypeOK, Idle, ledgers, Phases

LEMMA TypeStart ==
  ASSUME TypeOK, NEW R \in Rosters, NEW b \in BOOLEAN, Start(R, b)
  PROVE  TypeOK'
<1>1. CASE StartGenerate(R, b)
  BY <1>1 DEF TypeOK, StartGenerate, StartStep, ledgers, Phases
<1>2. CASE StartVerify(R, b)
  BY <1>2 DEF TypeOK, StartVerify, StartVerifier, StartStep, ledgers, Phases
<1>3. CASE StartScore(R, b)
  BY <1>3 DEF TypeOK, StartScore, StartVerifier, StartStep, ledgers, Phases
<1> QED  BY <1>1, <1>2, <1>3 DEF Start

LEMMA TypeStep ==
  ASSUME TypeOK, RowsScored, [Next]_vars
  PROVE  TypeOK'
<1>1. ASSUME NEW R \in Rosters, NEW b \in BOOLEAN, Start(R, b)
      PROVE  TypeOK'
  BY <1>1, TypeStart
<1>2. CASE StopAtBudget
  BY <1>2, TypeIdle DEF StopAtBudget, TypeOK
<1>3. ASSUME NEW c \in Cells, ReplayMiss(c)
      PROVE  TypeOK'
  BY <1>3, TypeIdle DEF ReplayMiss, TypeOK
<1>4. ASSUME NEW c \in Cells, GenerateCell(c)
      PROVE  TypeOK'
  BY <1>4, AnAnswer DEF GenerateCell, CallTakesTime, Reached, TypeOK
<1>5. ASSUME NEW c \in Cells, VerifyCell(c)
      PROVE  TypeOK'
  <2>1. over' \in BOOLEAN /\ loaded' \subseteq Instruments /\ todo' \subseteq roster'
    BY <1>5 DEF VerifyCell, CallTakesTime, Reached, TypeOK, Instruments
  <2>2. ver' \in [Cases -> [Texts -> Answers(Verdicts)]]
    <3>1. CASE HasVerdict(c)
      BY <1>5, <3>1 DEF VerifyCell, TypeOK
    <3>2. CASE ~HasVerdict(c)
      <4>1. PICK v \in Verdicts : ver' = [ver EXCEPT ![Case[c]][gen[c]] = v]
        BY <1>5, <3>2 DEF VerifyCell
      <4>2. v \in Answers(Verdicts)
        BY AnAnswer
      <4> QED  BY <4>1, <4>2 DEF TypeOK
    <3> QED  BY <3>1, <3>2
  <2> QED  BY <1>5, <2>1, <2>2 DEF VerifyCell, TypeOK
<1>6. ASSUME NEW c \in Cells, ExtractCell(c)
      PROVE  TypeOK'
  BY <1>6, AnAnswer
     DEF ExtractCell, ExtractShown, CallTakesTime, Reached, TypeOK, Instruments
<1>7. ASSUME NEW c \in Cells, JudgeCell(c)
      PROVE  TypeOK'
  BY <1>7, AnAnswer
     DEF JudgeCell, Rate, CallTakesTime, Reached, TypeOK, Instruments
<1>8. ASSUME NEW c \in Cells, JudgeRaises(c)
      PROVE  TypeOK'
  BY <1>8, AnAnswer, BlankRow DEF JudgeRaises, Idle, TypeOK, Instruments, Phases
<1>9. ASSUME NEW c \in Cells, ScoreCell(c)
      PROVE  TypeOK'
  <2>1. Shown(c) \in Texts
    BY <1>9, ShownIsText DEF ScoreCell
  <2>2. /\ ext' \in [Texts -> Answers(Claims)]
        /\ over' \in BOOLEAN /\ loaded' \subseteq Instruments
    BY <1>9, AnAnswer
       DEF ScoreCell, ExtractShown, CallTakesTime, TypeOK, Instruments
  <2>3. [text |-> Shown(c), abstained |-> Abstains(c),
         claims |-> ext'[Shown(c)], score |-> None] \in RowType
    BY <2>1, <2>2, AnAnswer DEF RowType, Abstains
  <2> QED  BY <1>9, <2>2, <2>3 DEF ScoreCell, Reached, TypeOK
<1>10. ASSUME NEW c \in Cells, RateCell(c)
       PROVE  TypeOK'
  <2>1. rows[c].text \in Texts
    <3>1. Scored(c)
      BY <1>10 DEF RateCell, NextRated, RowsScored, TypeOK
    <3> QED  BY <3>1, ShownIsText DEF Scored, Extracted
  <2>2. /\ jud' \in [Texts -> Answers(Scores)]
        /\ over' \in BOOLEAN /\ loaded' \subseteq Instruments
    BY <1>10, AnAnswer
       DEF RateCell, Rate, CallTakesTime, TypeOK, Instruments
  <2>3. rows' \in [Cells -> RowType]
    BY <1>10, <2>1, <2>2 DEF RateCell, WithScore, RowType, TypeOK
  <2> QED  BY <1>10, <2>2, <2>3 DEF RateCell, Reached, TypeOK
<1>11. CASE EndGenerate
  BY <1>11, TypeIdle DEF EndGenerate, TypeOK
<1>12. CASE EndVerify
  BY <1>12, TypeIdle DEF EndVerify, TypeOK
<1>13. CASE EndPass1 \/ EndExtract \/ EndJudge \/ EndCells
  BY <1>13 DEF EndPass1, EndExtract, EndJudge, EndCells, OnlyLoaded, TypeOK,
               ledgers, Phases
<1>14. CASE WriteRun
  BY <1>14, TypeIdle DEF WriteRun, TypeOK
<1>15. CASE Crash
  <2>1. loaded' \subseteq Instruments
    BY <1>15 DEF Crash, Pending, TypeOK
  <2> QED  BY <1>15, <2>1, TypeIdle DEF Crash, TypeOK
<1>16. ASSUME NEW m \in Instruments, Expire(m)
       PROVE  TypeOK'
  BY <1>16 DEF Expire, TypeOK, ledgers, session
<1>17. CASE UNCHANGED vars
  BY <1>17 DEF vars, session, TypeOK
<1> QED
  BY <1>1, <1>2, <1>3, <1>4, <1>5, <1>6, <1>7, <1>8, <1>9, <1>10, <1>11, <1>12,
     <1>13, <1>14, <1>15, <1>16, <1>17 DEF Next, Work

(***************************************************************************)
(* Ledgers only grow, so what is known of a cell stays known.              *)
(***************************************************************************)
LedgersGrow ==
  /\ \A c \in Cells : gen[c] # None => gen'[c] = gen[c]
  /\ \A k \in Cases, t \in Texts : ver[k][t] # None => ver'[k][t] = ver[k][t]
  /\ \A t \in Texts : ext[t] # None => ext'[t] = ext[t]
  /\ \A t \in Texts : jud[t] # None => jud'[t] = jud[t]

LEMMA Grow ==
  ASSUME TypeOK, [Next]_vars
  PROVE  LedgersGrow
<1>1. ASSUME UNCHANGED ledgers
      PROVE  LedgersGrow
  BY <1>1 DEF ledgers, LedgersGrow
<1>2. ASSUME NEW R \in Rosters, NEW b \in BOOLEAN, Start(R, b)
      PROVE  UNCHANGED ledgers
  BY <1>2 DEF Start, StartGenerate, StartVerify, StartScore, StartStep
<1>3. ASSUME \/ StopAtBudget \/ EndGenerate \/ EndVerify \/ EndPass1
             \/ EndExtract \/ EndJudge \/ EndCells \/ WriteRun \/ Crash
      PROVE  UNCHANGED ledgers
  BY <1>3 DEF StopAtBudget, EndGenerate, EndVerify, EndPass1, EndExtract,
              EndJudge, EndCells, WriteRun, Crash
<1>4. ASSUME NEW c \in Cells, ReplayMiss(c)
      PROVE  UNCHANGED ledgers
  BY <1>4 DEF ReplayMiss
<1>5. ASSUME NEW m \in Instruments, Expire(m)
      PROVE  UNCHANGED ledgers
  BY <1>5 DEF Expire
<1>6. ASSUME UNCHANGED vars
      PROVE  UNCHANGED ledgers
  BY <1>6 DEF vars, ledgers
<1>7. ASSUME NEW c \in Cells, GenerateCell(c)
      PROVE  LedgersGrow
  BY <1>7 DEF GenerateCell, HasDraft, LedgersGrow, TypeOK
<1>8. ASSUME NEW c \in Cells, VerifyCell(c)
      PROVE  LedgersGrow
  <2>1. UNCHANGED <<gen, ext, jud>>
    BY <1>8 DEF VerifyCell
  <2>2. ASSUME NEW k \in Cases, NEW t \in Texts, ver[k][t] # None
        PROVE  ver'[k][t] = ver[k][t]
    <3>1. CASE UNCHANGED ver
      BY <3>1
    <3>2. CASE ~UNCHANGED ver
      <4>1. PICK v \in Verdicts : ver' = [ver EXCEPT ![Case[c]][gen[c]] = v]
        BY <1>8, <3>2 DEF VerifyCell
      <4>2. ver[Case[c]][gen[c]] = None
        BY <1>8, <3>2 DEF VerifyCell, HasVerdict, Verdict
      <4> QED  BY <2>2, <4>1, <4>2 DEF TypeOK
    <3> QED  BY <3>1, <3>2
  <2> QED  BY <2>1, <2>2 DEF LedgersGrow
<1>9. ASSUME NEW c \in Cells, ExtractCell(c) \/ ScoreCell(c)
      PROVE  LedgersGrow
  BY <1>9 DEF ExtractCell, ScoreCell, ExtractShown, LedgersGrow, TypeOK
<1>10. ASSUME NEW c \in Cells, JudgeCell(c) \/ RateCell(c)
       PROVE  LedgersGrow
  BY <1>10 DEF JudgeCell, RateCell, Rate, LedgersGrow, TypeOK
<1>11. ASSUME NEW c \in Cells, JudgeRaises(c)
       PROVE  LedgersGrow
  BY <1>11 DEF JudgeRaises, LedgersGrow, TypeOK
<1> QED
  BY <1>1, <1>2, <1>3, <1>4, <1>5, <1>6, <1>7, <1>8, <1>9, <1>10, <1>11
     DEF Next, Work

\* What holds of a cell now and after any step.
Kept(c) ==
  HasDraft(c) =>
    /\ HasDraft(c)'
    /\ HasVerdict(c) =>
         /\ HasVerdict(c)'
         /\ Shown(c)' = Shown(c) /\ Abstains(c)' = Abstains(c)
         /\ Extracted(c) => ext'[Shown(c)] = ext[Shown(c)]
         /\ jud[Shown(c)] # None => jud'[Shown(c)] = jud[Shown(c)]

LEMMA CellKept ==
  ASSUME TypeOK, LedgersGrow, NEW c \in Cells
  PROVE  Kept(c)
<1> SUFFICES ASSUME HasDraft(c) PROVE Kept(c)
  BY DEF Kept
<1>1. Shown(c) \in Texts
  BY ShownIsText
<1>2. c \in Drafted => gen[c] \in Texts /\ gen'[c] = gen[c]
  BY DEF HasDraft, LedgersGrow, TypeOK, Answers
<1>3. HasDraft(c)'
  BY <1>2 DEF HasDraft
<1>4. ASSUME HasVerdict(c)
      PROVE  /\ HasVerdict(c)'
             /\ Shown(c)' = Shown(c) /\ Abstains(c)' = Abstains(c)
  <2>1. c \in Verified => Verdict(c)' = Verdict(c)
    BY <1>2, <1>4 DEF HasVerdict, Verdict, LedgersGrow
  <2> QED  BY <1>2, <1>4, <2>1 DEF HasVerdict, Shown, Abstains
<1> QED  BY <1>1, <1>3, <1>4 DEF Kept, Extracted, LedgersGrow

(***************************************************************************)
(* Sessions.                                                               *)
(***************************************************************************)
\* A step that ends the session owes nothing to the passes.
LEMMA IdleSession ==
  ASSUME Idle
  PROVE  SessionInv'
  BY DEF Idle, SessionInv, VerdictsInPlace, PassesDone, RowsScored,
         BudgetedCallsMade

\* A step that keeps the session and the ledgers keeps what its passes did.
LEMMA SameSession ==
  ASSUME SessionInv, UNCHANGED <<ledgers, session>>
  PROVE  SessionInv'
  BY DEF SessionInv, VerdictsInPlace, PassesDone, RowsScored,
         BudgetedCallsMade, Scored, Extracted, Rated, HasDraft, HasVerdict,
         Verdict, Shown, Abstains, ledgers, session

LEMMA StartSession ==
  ASSUME TypeOK, NEW R \in Rosters, NEW b \in BOOLEAN, Start(R, b)
  PROVE  SessionInv'
<1>1. \/ phase' = "generate" /\ todo' = roster'
      \/ phase' \in {"verify", "pass1"} /\ todo' = roster' \cap Verified
  BY DEF Start, StartGenerate, StartVerify, StartScore, StartStep
<1> QED
  BY <1>1 DEF SessionInv, VerdictsInPlace, PassesDone, RowsScored,
              BudgetedCallsMade

\* The steps on one cell.
LEMMA GenerateSession ==
  ASSUME TypeOK, SessionInv, NEW c \in Cells, GenerateCell(c),
         \A d \in Cells : Kept(d)
  PROVE  SessionInv'
<1>1. HasDraft(c)'
  BY DEF GenerateCell, HasDraft, TypeOK
<1>2. /\ phase = "generate" /\ phase' = "generate"
      /\ roster' = roster /\ todo' = todo \ {c}
  BY DEF GenerateCell, Reached
<1>3. \A d \in roster' \ todo' : HasDraft(d)'
  BY <1>1, <1>2 DEF SessionInv, PassesDone, Kept, TypeOK
<1> QED
  BY <1>2, <1>3 DEF SessionInv, VerdictsInPlace, PassesDone, RowsScored,
                    BudgetedCallsMade

LEMMA VerifySession ==
  ASSUME TypeOK, SessionInv, NEW c \in Cells, VerifyCell(c),
         \A d \in Cells : Kept(d)
  PROVE  SessionInv'
<1>1. /\ phase \in {"verify", "pass1"} /\ phase' = phase
      /\ roster' = roster /\ todo' = todo \ {c} /\ HasDraft(c)
  BY DEF VerifyCell, Reached
<1>2. c \in Verified => HasVerdict(c)'
  <2>1. CASE HasVerdict(c)
    BY <1>1, <2>1 DEF Kept
  <2>2. CASE ~HasVerdict(c)
    <3>1. gen[c] \in Texts /\ gen' = gen
      BY <1>1, <2>2 DEF HasDraft, HasVerdict, VerifyCell, TypeOK, Answers
    <3>2. PICK v \in Verdicts : ver' = [ver EXCEPT ![Case[c]][gen[c]] = v]
      BY <2>2 DEF VerifyCell
    <3>3. ver'[Case[c]][gen[c]] = v
      BY <3>1, <3>2 DEF TypeOK
    <3> QED  BY <3>1, <3>3 DEF HasVerdict, Verdict
  <2> QED  BY <2>1, <2>2
<1>3. \A d \in (roster' \cap Verified) \ todo' : HasDraft(d)' /\ HasVerdict(d)'
  BY <1>1, <1>2 DEF SessionInv, PassesDone, Kept, TypeOK
<1> QED
  BY <1>1, <1>3 DEF SessionInv, VerdictsInPlace, PassesDone, RowsScored,
                    BudgetedCallsMade

\* A drafted and verified cell stays extracted, rated and scored.
LEMMA StaysExtracted ==
  ASSUME NEW c \in Cells, Kept(c), HasVerdict(c), Extracted(c)
  PROVE  Extracted(c)'
  BY DEF Kept, Extracted

LEMMA StaysRated ==
  ASSUME NEW c \in Cells, Kept(c), HasDraft(c), HasVerdict(c), Rated(c)
  PROVE  Rated(c)'
  BY DEF Kept, Rated

LEMMA StaysScored ==
  ASSUME NEW c \in Cells, Kept(c), HasVerdict(c), Scored(c),
         \/ rows'[c] = rows[c]
         \/ rows'[c] = WithScore(rows[c], rows'[c].score)
  PROVE  Scored(c)'
  BY DEF Kept, Scored, Extracted, WithScore

\* Behind pass 1 every cell has its verdict, verified or not.
LEMMA VerdictsThere ==
  ASSUME TypeOK, VerdictsInPlace,
         phase \in {"extract", "judge", "cells", "rate"}, NEW c \in roster
  PROVE  c \in Cells /\ HasVerdict(c)
  BY DEF TypeOK, VerdictsInPlace, HasVerdict

LEMMA VerdictsKept ==
  ASSUME TypeOK, VerdictsInPlace, roster' = roster,
         phase \in {"extract", "judge", "cells", "rate"},
         \A d \in Cells : Kept(d)
  PROVE  VerdictsInPlace'
  BY DEF TypeOK, VerdictsInPlace, Kept

LEMMA ExtractSession ==
  ASSUME TypeOK, SessionInv, NEW c \in Cells, ExtractCell(c),
         \A d \in Cells : Kept(d)
  PROVE  SessionInv'
<1>1. /\ phase = "extract" /\ phase' = "extract"
      /\ roster' = roster /\ todo' = todo \ {c}
      /\ HasDraft(c) /\ HasVerdict(c)
  BY DEF ExtractCell, Reached
<1>2. VerdictsInPlace'
  BY <1>1, VerdictsKept DEF SessionInv
<1>3. Extracted(c)'
  <2>1. Shown(c) \in Texts /\ Shown(c)' = Shown(c) /\ HasDraft(c)'
    BY <1>1, ShownIsText DEF Kept
  <2>2. ext'[Shown(c)] # None
    BY <2>1 DEF ExtractCell, ExtractShown, TypeOK
  <2> QED  BY <2>1, <2>2 DEF Extracted
<1>4. \A d \in roster' \ todo' : Extracted(d)'
  BY <1>1, <1>3, VerdictsThere, StaysExtracted DEF SessionInv, PassesDone
<1> QED
  BY <1>1, <1>2, <1>4 DEF SessionInv, PassesDone, RowsScored, BudgetedCallsMade

LEMMA JudgeSession ==
  ASSUME TypeOK, SessionInv, NEW c \in Cells, JudgeCell(c),
         \A d \in Cells : Kept(d)
  PROVE  SessionInv'
<1>1. /\ phase = "judge" /\ phase' = "judge"
      /\ roster' = roster /\ todo' = todo \ {c} /\ c \in roster
  BY DEF JudgeCell, NextRated, Reached, TypeOK
<1>2. VerdictsInPlace'
  BY <1>1, VerdictsKept DEF SessionInv
<1>3. \A d \in roster : d \in Cells /\ HasVerdict(d) /\ Extracted(d)
  BY <1>1, VerdictsThere DEF SessionInv, PassesDone
<1>4. \A d \in roster' : Extracted(d)'
  BY <1>1, <1>3, StaysExtracted
<1>5. Rated(c)'
  <2>1. Shown(c) \in Texts /\ Shown(c)' = Shown(c)
    BY <1>1, <1>3, ShownIsText DEF Kept, Extracted
  <2>2. jud'[Shown(c)] # None /\ jud'[Shown(c)] \notin Fatal
    BY <2>1 DEF JudgeCell, Rate, TypeOK
  <2> QED  BY <2>1, <2>2 DEF Rated
<1>6. \A d \in roster' \ todo' : Rated(d)'
  BY <1>1, <1>3, <1>5, StaysRated DEF SessionInv, PassesDone, Extracted
<1> QED
  BY <1>1, <1>2, <1>4, <1>6
     DEF SessionInv, PassesDone, RowsScored, BudgetedCallsMade

LEMMA ScoreSession ==
  ASSUME TypeOK, SessionInv, NEW c \in Cells, ScoreCell(c),
         \A d \in Cells : Kept(d)
  PROVE  SessionInv'
<1>1. /\ phase = "cells" /\ phase' = "cells" /\ budgeted' = budgeted
      /\ roster' = roster /\ todo' = todo \ {c}
      /\ HasDraft(c) /\ HasVerdict(c)
      /\ \A d \in Cells : d # c => rows'[d] = rows[d]
  BY DEF ScoreCell, Reached, TypeOK
<1>2. VerdictsInPlace'
  BY <1>1, VerdictsKept DEF SessionInv
<1>3. Scored(c)'
  <2>1. /\ Shown(c) \in Texts /\ Shown(c)' = Shown(c) /\ HasDraft(c)'
        /\ Abstains(c)' = Abstains(c)
    BY <1>1, ShownIsText DEF Kept
  <2>2. ext'[Shown(c)] # None
    BY <2>1 DEF ScoreCell, ExtractShown, TypeOK
  <2>3. rows'[c] = [text |-> Shown(c), abstained |-> Abstains(c),
                    claims |-> ext'[Shown(c)], score |-> None]
    BY DEF ScoreCell, TypeOK
  <2> QED  BY <2>1, <2>2, <2>3 DEF Scored, Extracted
<1>4. \A d \in roster' \ todo' : Scored(d)'
  <2> SUFFICES ASSUME NEW d \in roster' \ todo', d # c
               PROVE  Scored(d)'
    BY <1>3
  <2>1. d \in Cells /\ HasVerdict(d) /\ Scored(d) /\ rows'[d] = rows[d]
    BY <1>1, VerdictsThere DEF SessionInv, RowsScored
  <2> QED  BY <2>1, StaysScored
<1>5. BudgetedCallsMade'
  <2> SUFFICES ASSUME budgeted', NEW d \in roster'
               PROVE  Extracted(d)' /\ Rated(d)'
    BY DEF BudgetedCallsMade
  <2>1. d \in Cells /\ HasVerdict(d) /\ Extracted(d) /\ Rated(d)
    BY <1>1, VerdictsThere DEF SessionInv, BudgetedCallsMade
  <2> QED  BY <2>1, StaysExtracted, StaysRated DEF Extracted
<1> QED
  BY <1>1, <1>2, <1>4, <1>5 DEF SessionInv, PassesDone, RowsScored

LEMMA RateSession ==
  ASSUME TypeOK, SessionInv, NEW c \in Cells, RateCell(c),
         \A d \in Cells : Kept(d)
  PROVE  SessionInv'
<1>1. /\ phase = "rate" /\ phase' = "rate" /\ budgeted' = budgeted
      /\ roster' = roster /\ todo' = todo \ {c} /\ c \in roster
      /\ \A d \in Cells : d # c => rows'[d] = rows[d]
  BY DEF RateCell, NextRated, Reached, TypeOK
<1>2. VerdictsInPlace'
  BY <1>1, VerdictsKept DEF SessionInv
<1>3. rows'[c] = WithScore(rows[c], jud'[rows[c].text])
  BY DEF RateCell, TypeOK
<1>4. \A d \in roster : d \in Cells /\ HasVerdict(d) /\ Scored(d)
  BY <1>1, VerdictsThere DEF SessionInv, RowsScored
<1>5. \A d \in roster' : Scored(d)'
  <2>1. rows'[c] = WithScore(rows[c], rows'[c].score)
    BY <1>3 DEF WithScore
  <2> QED  BY <1>1, <1>4, <2>1, StaysScored
<1>6. rows'[c].score = jud'[Shown(c)'] /\ jud'[Shown(c)'] # None
  <2>1. /\ rows[c].text = Shown(c) /\ Shown(c) \in Texts
        /\ Shown(c)' = Shown(c)
    <3>1. Scored(c) /\ HasVerdict(c) /\ HasDraft(c)
      BY <1>1, <1>4 DEF Scored, Extracted
    <3>2. rows[c].text = Shown(c)
      BY <3>1 DEF Scored
    <3> QED  BY <3>1, <3>2, ShownIsText DEF Kept
  <2>2. jud'[Shown(c)] # None
    BY <2>1 DEF RateCell, Rate, TypeOK
  <2>3. rows'[c].score = jud'[rows[c].text]
    BY <1>3 DEF WithScore
  <2> QED  BY <2>1, <2>2, <2>3
<1>7. ASSUME NEW d \in roster' \ todo', d # c
      PROVE  rows'[d].score = jud'[Shown(d)'] /\ jud'[Shown(d)'] # None
  <2>1. d \in Cells /\ HasDraft(d) /\ HasVerdict(d) /\ rows'[d] = rows[d]
    BY <1>1, <1>4, <1>7 DEF Scored, Extracted
  <2>2. rows[d].score = jud[Shown(d)] /\ jud[Shown(d)] # None
    BY <1>1, <1>7 DEF SessionInv, RowsScored
  <2>3. Shown(d)' = Shown(d) /\ jud'[Shown(d)] = jud[Shown(d)]
    BY <2>1, <2>2 DEF Kept
  <2> QED  BY <2>1, <2>2, <2>3
<1>8. BudgetedCallsMade'
  <2> SUFFICES ASSUME budgeted', NEW d \in roster'
               PROVE  Extracted(d)' /\ Rated(d)'
    BY DEF BudgetedCallsMade
  <2>1. d \in Cells /\ HasVerdict(d) /\ Extracted(d) /\ Rated(d)
    BY <1>1, VerdictsThere DEF SessionInv, BudgetedCallsMade
  <2> QED  BY <2>1, StaysExtracted, StaysRated DEF Extracted
<1> QED
  BY <1>1, <1>2, <1>5, <1>6, <1>7, <1>8 DEF SessionInv, PassesDone, RowsScored

\* Between two passes: the ledgers and the rows stay, the next pass is due.
LEMMA SameCell ==
  ASSUME UNCHANGED <<ledgers, rows>>, NEW c
  PROVE  /\ HasDraft(c)' <=> HasDraft(c)
         /\ HasVerdict(c)' <=> HasVerdict(c)
         /\ Extracted(c)' <=> Extracted(c)
         /\ Rated(c)' <=> Rated(c)
         /\ Scored(c)' <=> Scored(c)
  BY DEF ledgers, HasDraft, HasVerdict, Verdict, Extracted, Rated, Scored,
         Shown, Abstains

LEMMA EndPass1Session ==
  ASSUME TypeOK, SessionInv, EndPass1
  PROVE  SessionInv'
<1>1. /\ UNCHANGED <<ledgers, rows>> /\ roster' = roster /\ todo' = roster
      /\ phase = "pass1" /\ todo = {}
      /\ phase' \in {"extract", "cells"}
  BY DEF EndPass1
<1>2. phase' = "cells" => ~budgeted'
  BY Zenon DEF EndPass1
<1>3. VerdictsInPlace'
  BY <1>1, SameCell DEF SessionInv, PassesDone, VerdictsInPlace
<1> QED
  BY <1>1, <1>2, <1>3 DEF SessionInv, PassesDone, RowsScored, BudgetedCallsMade

LEMMA EndExtractSession ==
  ASSUME TypeOK, SessionInv, EndExtract
  PROVE  SessionInv'
<1>1. /\ UNCHANGED <<ledgers, rows>> /\ roster' = roster /\ todo' = roster
      /\ phase = "extract" /\ phase' = "judge" /\ todo = {}
  BY DEF EndExtract
<1>2. VerdictsInPlace'
  BY <1>1, SameCell DEF SessionInv, VerdictsInPlace
<1>3. \A c \in roster' : Extracted(c)'
  BY <1>1, SameCell DEF SessionInv, PassesDone
<1> QED
  BY <1>1, <1>2, <1>3 DEF SessionInv, PassesDone, RowsScored, BudgetedCallsMade

LEMMA EndJudgeSession ==
  ASSUME TypeOK, SessionInv, EndJudge
  PROVE  SessionInv'
<1>1. /\ UNCHANGED <<ledgers, rows>> /\ roster' = roster /\ todo' = roster
      /\ phase = "judge" /\ phase' = "cells" /\ todo = {}
  BY DEF EndJudge
<1>2. VerdictsInPlace'
  BY <1>1, SameCell DEF SessionInv, VerdictsInPlace
<1>3. \A c \in roster' : Extracted(c)' /\ Rated(c)'
  BY <1>1, SameCell DEF SessionInv, PassesDone
<1> QED
  BY <1>1, <1>2, <1>3 DEF SessionInv, PassesDone, RowsScored, BudgetedCallsMade

LEMMA EndCellsSession ==
  ASSUME TypeOK, SessionInv, EndCells
  PROVE  SessionInv'
<1>1. /\ UNCHANGED <<ledgers, rows>> /\ roster' = roster /\ todo' = roster
      /\ phase = "cells" /\ phase' = "rate" /\ todo = {}
  BY DEF EndCells
<1>2. VerdictsInPlace'
  BY <1>1, SameCell DEF SessionInv, VerdictsInPlace
<1>3. \A c \in roster' : Scored(c)'
  BY <1>1, SameCell DEF SessionInv, RowsScored
<1>4. budgeted' <=> budgeted
  BY Zenon DEF EndCells
<1>5. budgeted' => \A c \in roster' : Extracted(c)' /\ Rated(c)'
  BY <1>1, <1>4, SameCell DEF SessionInv, BudgetedCallsMade
<1> QED
  BY <1>1, <1>2, <1>3, <1>5 DEF SessionInv, PassesDone, RowsScored, BudgetedCallsMade

LEMMA SessionStep ==
  ASSUME TypeOK, SessionInv, LedgersGrow, [Next]_vars
  PROVE  SessionInv'
<1>1. \A c \in Cells : Kept(c)
  BY CellKept
<1>2. ASSUME NEW R \in Rosters, NEW b \in BOOLEAN, Start(R, b)
      PROVE  SessionInv'
  BY <1>2, StartSession
<1>3. ASSUME NEW c \in Cells,
             \/ GenerateCell(c) \/ VerifyCell(c) \/ ExtractCell(c)
             \/ JudgeCell(c) \/ ScoreCell(c) \/ RateCell(c)
      PROVE  SessionInv'
  BY <1>1, <1>3, GenerateSession, VerifySession, ExtractSession, JudgeSession,
     ScoreSession, RateSession
<1>4. CASE EndPass1 \/ EndExtract \/ EndJudge \/ EndCells
  BY <1>4, EndPass1Session, EndExtractSession, EndJudgeSession, EndCellsSession
<1>5. ASSUME NEW c \in Cells, ReplayMiss(c) \/ JudgeRaises(c)
      PROVE  SessionInv'
  BY <1>5, IdleSession DEF ReplayMiss, JudgeRaises
<1>6. CASE StopAtBudget \/ EndGenerate \/ EndVerify \/ WriteRun \/ Crash
  BY <1>6, IdleSession DEF StopAtBudget, EndGenerate, EndVerify, WriteRun, Crash
<1>7. ASSUME NEW m \in Instruments, Expire(m)
      PROVE  SessionInv'
  BY <1>7, SameSession DEF Expire
<1>8. CASE UNCHANGED vars
  BY <1>8, SameSession DEF vars, ledgers
<1> QED
  BY <1>2, <1>3, <1>4, <1>5, <1>6, <1>7, <1>8 DEF Next, Work

(***************************************************************************)
(* Steps reported COMPLETE, and written runs.                              *)
(***************************************************************************)
LEMMA CompleteStep ==
  ASSUME TypeOK, SessionInv, CompleteMeansComplete, LedgersGrow, [Next]_vars
  PROVE  CompleteMeansComplete'
<1>1. \A c \in Cells : Kept(c)
  BY CellKept
<1>2. ASSUME NEW R \in Rosters, <<"generate", R>> \in complete'
      PROVE  \A c \in R : HasDraft(c)'
  <2>1. \A c \in R : HasDraft(c)
    <3>1. CASE <<"generate", R>> \in complete
      BY <3>1 DEF CompleteMeansComplete
    <3>2. CASE <<"generate", R>> \notin complete
      <4>1. EndGenerate /\ R = roster
        BY <1>2, <3>2
           DEF Next, Work, Start, StartGenerate, StartVerify, StartScore,
               StartStep, StopAtBudget, ReplayMiss, GenerateCell, VerifyCell,
               ExtractCell, JudgeCell, JudgeRaises, ScoreCell, RateCell,
               EndGenerate, EndVerify, EndPass1, EndExtract, EndJudge, EndCells,
               WriteRun, Crash, Expire, vars
      <4> QED  BY <4>1 DEF EndGenerate, SessionInv, PassesDone
    <3> QED  BY <3>1, <3>2
  <2>2. R \subseteq Cells
    OBVIOUS
  <2> QED  BY <1>1, <2>1, <2>2 DEF Kept
<1>3. ASSUME NEW R \in Rosters, <<"verify", R>> \in complete'
      PROVE  \A c \in R \cap Verified : HasDraft(c)' /\ HasVerdict(c)'
  <2>1. \A c \in R \cap Verified : HasDraft(c) /\ HasVerdict(c)
    <3>1. CASE <<"verify", R>> \in complete
      BY <3>1 DEF CompleteMeansComplete
    <3>2. CASE <<"verify", R>> \notin complete
      <4>1. EndVerify /\ R = roster
        BY <1>3, <3>2
           DEF Next, Work, Start, StartGenerate, StartVerify, StartScore,
               StartStep, StopAtBudget, ReplayMiss, GenerateCell, VerifyCell,
               ExtractCell, JudgeCell, JudgeRaises, ScoreCell, RateCell,
               EndGenerate, EndVerify, EndPass1, EndExtract, EndJudge, EndCells,
               WriteRun, Crash, Expire, vars
      <4> QED  BY <4>1 DEF EndVerify, SessionInv, PassesDone
    <3> QED  BY <3>1, <3>2
  <2>2. R \subseteq Cells
    OBVIOUS
  <2> QED  BY <1>1, <2>1, <2>2 DEF Kept
<1> QED  BY <1>2, <1>3 DEF CompleteMeansComplete

\* What a written run says of a cell, and that a replay says the same.
Replays(run, c) ==
  /\ run.rows[c] = Row(c)
  /\ HasDraft(c) /\ HasVerdict(c)
  /\ ext[Shown(c)] # None /\ jud[Shown(c)] # None

RowsReplay == \A run \in runs : \A c \in run.roster : Replays(run, c)

LEMMA RowReplays == RunsReplay <=> RowsReplay
  BY DEF RunsReplay, RowsReplay, Replays, Row

LEMMA StaysReplayed ==
  ASSUME NEW run, NEW c \in Cells, Kept(c), Replays(run, c)
  PROVE  Replays(run, c)'
<1>1. /\ HasDraft(c)' /\ HasVerdict(c)'
      /\ Shown(c)' = Shown(c) /\ Abstains(c)' = Abstains(c)
      /\ ext'[Shown(c)] = ext[Shown(c)] /\ jud'[Shown(c)] = jud[Shown(c)]
  BY DEF Kept, Replays, Extracted
<1>2. ext'[Shown(c)'] = ext[Shown(c)] /\ jud'[Shown(c)'] = jud[Shown(c)]
  BY <1>1
<1>3. Row(c)' = Row(c)
  BY <1>1, <1>2 DEF Row
<1> QED  BY <1>1, <1>2, <1>3 DEF Replays

LEMMA WrittenReplays ==
  ASSUME TypeOK, SessionInv, phase = "rate", todo = {}, NEW c \in roster
  PROVE  /\ rows[c] = Row(c)
         /\ HasDraft(c) /\ HasVerdict(c)
         /\ ext[Shown(c)] # None /\ jud[Shown(c)] # None
<1>1. HasVerdict(c)
  BY VerdictsThere DEF SessionInv
<1>2. Scored(c) /\ rows[c].score = jud[Shown(c)] /\ jud[Shown(c)] # None
  BY DEF SessionInv, RowsScored
<1> QED  BY <1>1, <1>2 DEF Scored, Extracted, Row

LEMMA RunsStep ==
  ASSUME TypeOK, SessionInv, RunRosters, RunsReplay, LedgersGrow, [Next]_vars
  PROVE  RunRosters' /\ RunsReplay'
<1>1. \A c \in Cells : Kept(c)
  BY CellKept
<1>2. ASSUME NEW run \in runs
      PROVE  run.roster \in Rosters /\ \A c \in run.roster : Replays(run, c)'
  <2>1. run.roster \in Rosters
    BY DEF RunRosters
  <2>2. run.roster \subseteq Cells
    BY <2>1
  <2>3. \A c \in run.roster : Replays(run, c)
    BY RowReplays DEF RowsReplay
  <2> QED  BY <1>1, <2>1, <2>2, <2>3, StaysReplayed
<1>3. CASE ~WriteRun
  <2>1. runs' = runs
    BY <1>3
       DEF Next, Work, Start, StartGenerate, StartVerify, StartScore,
           StartStep, StopAtBudget, ReplayMiss, GenerateCell, VerifyCell,
           ExtractCell, JudgeCell, JudgeRaises, ScoreCell, RateCell,
           EndGenerate, EndVerify, EndPass1, EndExtract, EndJudge, EndCells,
           Crash, Expire, vars
  <2>2. RowsReplay'
    BY <1>2, <2>1 DEF RowsReplay
  <2>3. RunsReplay'
    BY <2>2, RowReplays, PTL
  <2> QED  BY <1>2, <2>1, <2>3 DEF RunRosters
<1>4. CASE WriteRun
  <2>1. /\ phase = "rate" /\ todo = {} /\ UNCHANGED ledgers
        /\ runs' = runs \cup {[roster |-> roster,
                               rows |-> [c \in roster |-> rows[c]],
                               items |-> items, calls |-> CallsOnRecord]}
    BY <1>4 DEF WriteRun
  <2>2. roster \in Rosters
    BY <2>1 DEF TypeOK
  <2>3. ASSUME NEW run \in runs', run \notin runs
        PROVE  /\ run.roster \in Rosters
               /\ \A c \in run.roster : Replays(run, c)'
    <3>1. run.roster = roster /\ \A c \in roster : run.rows[c] = rows[c]
      BY <2>1, <2>3
    <3>2. ASSUME NEW c \in run.roster
          PROVE  Replays(run, c)'
      <4>1. c \in Cells
        BY <2>2, <3>1
      <4>2. Replays(run, c)
        BY <2>1, <3>1, WrittenReplays DEF Replays
      <4> QED  BY <1>1, <4>1, <4>2, StaysReplayed
    <3> QED  BY <2>2, <3>1, <3>2
  <2>4. RowsReplay'
    BY <1>2, <2>3 DEF RowsReplay
  <2>5. RunsReplay'
    BY <2>4, RowReplays, PTL
  <2>6. \A run \in runs' : run.roster \in Rosters
    BY <1>2, <2>3
  <2> QED  BY <2>5, <2>6 DEF RunRosters
<1> QED  BY <1>3, <1>4

(***************************************************************************)
(* The theorems.                                                           *)
(***************************************************************************)
LEMMA InductiveInit == Init => Inductive
<1> SUFFICES ASSUME Init PROVE Inductive
  OBVIOUS
<1>1. TypeOK
  BY TypeInit
<1>2. SessionInv
  BY DEF Init, SessionInv, VerdictsInPlace, PassesDone, RowsScored,
         BudgetedCallsMade
<1>3. CompleteMeansComplete /\ RunRosters /\ RunsReplay
  BY DEF Init, CompleteMeansComplete, RunRosters, RunsReplay
<1> QED  BY <1>1, <1>2, <1>3 DEF Inductive

LEMMA InductiveStep == Inductive /\ [Next]_vars => Inductive'
<1> SUFFICES ASSUME Inductive, [Next]_vars PROVE Inductive'
  OBVIOUS
<1>1. TypeOK' /\ LedgersGrow
  BY TypeStep, Grow DEF Inductive, SessionInv
<1> QED  BY <1>1, SessionStep, CompleteStep, RunsStep DEF Inductive

LEMMA InductiveAlways == Spec => []Inductive
  BY InductiveInit, InductiveStep, PTL DEF Spec

\* The types, for every design: the ledgers hold answers to the calls they
\* are for, a pass works on cells of the session's generator list, and a row
\* is read off the ledgers and never off a draft that is not there.
THEOREM TypeCorrect == Spec => []TypeOK
<1>1. Inductive => TypeOK
  BY DEF Inductive
<1> QED  BY <1>1, InductiveAlways, PTL

\* Whatever kills, budgets and generator lists a study has seen, its scoring
\* passes never meet a verdict that is missing (execute.py pass 1 before
\* pass 2), so they never have to load the verifier.
THEOREM VerdictsAreInPlace == Spec => []VerdictsInPlace
<1>1. Inductive => VerdictsInPlace
  BY DEF Inductive, SessionInv
<1> QED  BY <1>1, InductiveAlways, PTL

\* A generate or verify step that exits 0 is done: no later session of that
\* generator list finds a draft or a verdict missing (cli.py exit codes).
THEOREM CompleteIsComplete == Spec => []CompleteMeansComplete
<1>1. Inductive => CompleteMeansComplete
  BY DEF Inductive
<1> QED  BY <1>1, InductiveAlways, PTL

\* Every row of every run ever written is what a replay of today's ledgers
\* computes (execute.py: "the run is the one an unbudgeted score step
\* writes").
THEOREM RunsAreReplays == Spec => []RunsReplay
<1>1. Inductive => RunsReplay
  BY DEF Inductive
<1> QED  BY <1>1, InductiveAlways, PTL

\* Behind the budgeted passes scoring makes no model call (execute.py
\* _score_passes): a step of it leaves every ledger alone.
THEOREM ScoringOnlyReplays == Spec => ScoringReplays
<1>1. ASSUME Inductive, [Next]_vars, budgeted, phase \in {"cells", "rate"}
      PROVE  UNCHANGED ledgers
  <2>1. \A c \in roster : c \in Cells /\ Extracted(c) /\ Rated(c)
    BY <1>1 DEF Inductive, TypeOK, SessionInv, BudgetedCallsMade
  <2>2. ASSUME NEW c \in Cells, ScoreCell(c)
        PROVE  UNCHANGED ledgers
    <3>1. Extracted(c)
      BY <1>1, <2>1, <2>2 DEF ScoreCell, NextCell, Inductive, TypeOK
    <3> QED  BY <2>2, <3>1 DEF ScoreCell, ExtractShown, Extracted, ledgers
  <2>3. ASSUME NEW c \in Cells, RateCell(c)
        PROVE  UNCHANGED ledgers
    <3>1. c \in roster /\ phase = "rate"
      BY <1>1, <2>3 DEF RateCell, NextRated, Inductive, TypeOK
    <3>2. Rated(c) /\ Scored(c)
      BY <1>1, <2>1, <3>1 DEF Inductive, SessionInv, RowsScored
    <3>3. rows[c].text = Shown(c)
      BY <3>2 DEF Scored
    <3> QED  BY <2>3, <3>2, <3>3 DEF RateCell, Rate, Rated, ledgers
  <2>4. ASSUME NEW c \in Cells, JudgeRaises(c)
        PROVE  UNCHANGED ledgers
    <3>1. Rated(c)
      BY <1>1, <2>1, <2>4 DEF JudgeRaises, NextRated, Inductive, TypeOK
    <3> QED  BY <2>4, <3>1 DEF JudgeRaises, Rated, ledgers
  <2>5. ASSUME NEW c \in Cells, ReplayMiss(c)
        PROVE  UNCHANGED ledgers
    BY <2>5 DEF ReplayMiss
  <2> QED
    BY <1>1, <2>2, <2>3, <2>4, <2>5
       DEF Next, Work, Start, StartGenerate, StartVerify, StartScore, StartStep,
           StopAtBudget, GenerateCell, VerifyCell, ExtractCell, JudgeCell,
           EndGenerate, EndVerify, EndPass1, EndExtract, EndJudge, EndCells,
           WriteRun, Crash, Expire, vars, ledgers
<1>2. Inductive /\ [Next]_vars =>
        [budgeted /\ phase \in {"cells", "rate"} => UNCHANGED ledgers]_vars
  BY <1>1
<1> QED  BY <1>2, InductiveAlways, PTL DEF Spec, ScoringReplays

(***************************************************************************)
(* The GPUs.  _only_loaded unloads the models this session knows of, so    *)
(* what another session left matters: a list without a verified generator  *)
(* does not know of the verifier.                                          *)
(***************************************************************************)
SomeVerified == \A R \in Rosters : R \cap Verified # {}
NoneVerified == \A R \in Rosters : R \cap Verified = {}

\* While a pass calls its instrument nothing else is loaded.
GpuInv ==
  /\ OneModelAtATime
  /\ phase \in {"verify", "pass1"} /\ roster \cap Verified # {} =>
       loaded \subseteq {"verifier"}
  /\ phase \in {"extract", "cells"} => loaded \subseteq {"extractor"}
  /\ phase \in {"judge", "rate"} => loaded \subseteq {"judge"}
  /\ NoneVerified => "verifier" \notin loaded

\* Only the pass's own instrument can be loading when a session is killed.
LEMMA PendingIsThePass ==
  ASSUME TypeOK, NEW m \in Pending
  PROVE  \/ m = "verifier" /\ phase \in {"verify", "pass1"} /\ roster \cap Verified # {}
         \/ m = "extractor" /\ phase \in {"extract", "cells"}
         \/ m = "judge" /\ phase \in {"judge", "rate"}
<1>1. PICK c \in todo :
        \/ m = "verifier" /\ phase \in {"verify", "pass1"} /\ ~HasVerdict(c)
        \/ m = "extractor" /\ phase \in {"extract", "cells"}
        \/ m = "judge" /\ phase \in {"judge", "rate"}
  BY DEF Pending
<1>2. ~HasVerdict(c) => c \in roster \cap Verified
  BY DEF HasVerdict, TypeOK
<1> QED  BY <1>1, <1>2

\* A session that ends without loading anything new leaves the GPUs sound.
LEMMA GpuIdle ==
  ASSUME GpuInv, Idle, loaded' \subseteq loaded
  PROVE  GpuInv'
  BY DEF GpuInv, OneModelAtATime, Idle

LEMMA GpuStep ==
  ASSUME SomeVerified \/ NoneVerified, TypeOK, GpuInv, [Next]_vars
  PROVE  GpuInv'
<1>1. loaded \subseteq Instruments
  BY DEF TypeOK
<1>2. \A keep : OnlyLoaded(keep) \subseteq loaded
  BY DEF OnlyLoaded
<1>3. ASSUME phase \in Phases \ {"idle"}
      PROVE  \A keep \in {"extractor", "judge"} : OnlyLoaded(keep) \subseteq {keep}
  <2>1. roster \in Rosters
    BY <1>3 DEF TypeOK
  <2>2. roster \cap Verified # {} \/ "verifier" \notin loaded
    BY <2>1 DEF SomeVerified, GpuInv
  <2> QED  BY <1>1, <2>2 DEF OnlyLoaded, Known, Instruments
<1>4. ASSUME NEW R \in Rosters, NEW b \in BOOLEAN, Start(R, b)
      PROVE  GpuInv'
  <2>1. CASE StartGenerate(R, b)
    BY <2>1 DEF StartGenerate, StartStep, GpuInv, OneModelAtATime
  <2>2. CASE StartVerify(R, b)
    BY <1>1, <2>2 DEF StartVerify, StartVerifier, StartStep, GpuInv,
                      OneModelAtATime, Instruments
  <2>3. CASE StartScore(R, b)
    BY <1>1, <2>3 DEF StartScore, StartVerifier, StartStep, GpuInv,
                      OneModelAtATime, Instruments
  <2> QED  BY <1>4, <2>1, <2>2, <2>3 DEF Start
<1>5. CASE StopAtBudget \/ EndGenerate \/ EndVerify \/ WriteRun
  <2>1. Idle /\ loaded' \subseteq loaded
    BY <1>5 DEF StopAtBudget, EndGenerate, EndVerify, WriteRun
  <2> QED  BY <2>1, GpuIdle
<1>6. ASSUME NEW c \in Cells, ReplayMiss(c)
      PROVE  GpuInv'
  BY <1>6, GpuIdle DEF ReplayMiss
<1>7. ASSUME NEW c \in Cells, GenerateCell(c)
      PROVE  GpuInv'
  BY <1>7 DEF GenerateCell, GpuInv, OneModelAtATime
<1>8. ASSUME NEW c \in Cells, VerifyCell(c)
      PROVE  GpuInv'
  <2>1. CASE HasVerdict(c)
    BY <1>8, <2>1 DEF VerifyCell, GpuInv, OneModelAtATime
  <2>2. CASE ~HasVerdict(c)
    <3>1. c \in roster \cap Verified /\ roster \in Rosters
      BY <1>8, <2>2 DEF VerifyCell, NextCell, HasVerdict, TypeOK
    <3>2. /\ loaded' = loaded \cup {"verifier"} /\ phase \in {"verify", "pass1"}
          /\ phase' = phase /\ roster' = roster
      BY <1>8, <2>2 DEF VerifyCell
    <3> QED  BY <3>1, <3>2 DEF GpuInv, OneModelAtATime, NoneVerified
  <2> QED  BY <2>1, <2>2
<1>9. ASSUME NEW c \in Cells, ExtractCell(c) \/ ScoreCell(c)
      PROVE  GpuInv'
  <2>1. /\ phase \in {"extract", "cells"} /\ phase' = phase /\ roster' = roster
        /\ loaded' \subseteq loaded \cup {"extractor"}
    BY <1>9 DEF ExtractCell, ScoreCell, ExtractShown
  <2> QED  BY <2>1 DEF GpuInv, OneModelAtATime
<1>10. ASSUME NEW c \in Cells, JudgeCell(c) \/ RateCell(c)
       PROVE  GpuInv'
  <2>1. /\ phase \in {"judge", "rate"} /\ phase' = phase /\ roster' = roster
        /\ loaded' \subseteq loaded \cup {"judge"}
    BY <1>10 DEF JudgeCell, RateCell, Rate
  <2> QED  BY <2>1 DEF GpuInv, OneModelAtATime
<1>11. ASSUME NEW c \in Cells, JudgeRaises(c)
       PROVE  GpuInv'
  <2>1. /\ phase \in {"judge", "rate"} /\ Idle
        /\ loaded' \subseteq loaded \cup {"judge"}
    BY <1>11 DEF JudgeRaises
  <2> QED  BY <2>1 DEF GpuInv, OneModelAtATime, Idle
<1>12. CASE EndPass1 \/ EndJudge
  <2>1. /\ phase' \in {"extract", "cells"} /\ loaded' = OnlyLoaded("extractor")
        /\ phase \in Phases \ {"idle"}
    BY <1>12 DEF EndPass1, EndJudge, Phases
  <2>2. loaded' \subseteq {"extractor"}
    BY <1>3, <2>1
  <2> QED  BY <2>1, <2>2 DEF GpuInv, OneModelAtATime
<1>13. CASE EndExtract \/ EndCells
  <2>1. /\ phase' \in {"judge", "rate"} /\ loaded' = OnlyLoaded("judge")
        /\ phase \in Phases \ {"idle"}
    BY <1>13 DEF EndExtract, EndCells, Phases
  <2>2. loaded' \subseteq {"judge"}
    BY <1>3, <2>1
  <2> QED  BY <2>1, <2>2 DEF GpuInv, OneModelAtATime
<1>14. CASE Crash
  <2>1. Idle /\ loaded' \subseteq loaded \cup Pending
    BY <1>14 DEF Crash
  <2>2. \A m \in loaded \cup Pending, n \in Pending : m = n
    BY PendingIsThePass DEF GpuInv, OneModelAtATime
  <2>3. NoneVerified => "verifier" \notin Pending
    <3>1. phase # "idle" /\ roster \in Rosters
      BY <1>14 DEF Crash, TypeOK
    <3> QED  BY <3>1, PendingIsThePass DEF NoneVerified
  <2> QED  BY <2>1, <2>2, <2>3 DEF GpuInv, OneModelAtATime, Idle
<1>15. ASSUME NEW m \in Instruments, Expire(m)
       PROVE  GpuInv'
  BY <1>15 DEF Expire, session, GpuInv, OneModelAtATime
<1>16. CASE UNCHANGED vars
  BY <1>16 DEF vars, session, GpuInv, OneModelAtATime
<1> QED
  BY <1>4, <1>5, <1>6, <1>7, <1>8, <1>9, <1>10, <1>11, <1>12, <1>13, <1>14,
     <1>15, <1>16 DEF Next, Work

\* Each instrument has the GPUs to itself, whatever is killed and whatever the
\* server keeps, if every generator list has a verified generator, or none has
\* (execute.py _only_loaded).  With lists of both kinds it is false: the
\* verifier a killed session left stays beside the extractor.
THEOREM InstrumentsTakeTurns ==
  ASSUME SomeVerified \/ NoneVerified
  PROVE  Spec => []OneModelAtATime
<1>1. Init => GpuInv
  BY DEF Init, GpuInv, OneModelAtATime
<1>2. TypeOK /\ GpuInv /\ [Next]_vars => GpuInv'
  BY GpuStep
<1>3. GpuInv => OneModelAtATime
  BY DEF GpuInv
<1> QED  BY <1>1, <1>2, <1>3, TypeCorrect, PTL DEF Spec

(***************************************************************************)
(* The refinement.  A session's step records at most one answer, so it is  *)
(* at most one step of the study; the step that writes the run publishes   *)
(* the replay of every cell, counting each once.                           *)
(***************************************************************************)
\* _FallbackCounter counts the cells the session has scored.
ItemsCounted ==
  /\ phase = "cells" => items = Cardinality(roster \ todo)
  /\ phase = "rate" => items = Cardinality(roster)
  /\ phase \notin {"cells", "rate"} => items = 0

LEMMA CountStep ==
  ASSUME TypeOK, ItemsCounted, [Next]_vars
  PROVE  ItemsCounted'
<1>1. Cardinality({}) = 0
  BY FS_EmptySet
<1>2. ASSUME Idle PROVE ItemsCounted'
  BY <1>2 DEF Idle, ItemsCounted
<1>3. CASE \/ StopAtBudget \/ EndGenerate \/ EndVerify \/ WriteRun \/ Crash
           \/ \E c \in Cells : ReplayMiss(c) \/ JudgeRaises(c)
  BY <1>2, <1>3 DEF StopAtBudget, EndGenerate, EndVerify, WriteRun, Crash,
                    ReplayMiss, JudgeRaises
<1>4. ASSUME NEW R \in Rosters, NEW b \in BOOLEAN, Start(R, b)
      PROVE  ItemsCounted'
  BY <1>4 DEF Start, StartGenerate, StartVerify, StartScore, StartStep, ItemsCounted
<1>5. ASSUME NEW c \in Cells,
             \/ GenerateCell(c) \/ VerifyCell(c) \/ ExtractCell(c) \/ JudgeCell(c)
             \/ RateCell(c)
      PROVE  ItemsCounted'
  <2>1. /\ phase' = phase /\ phase # "cells" /\ roster' = roster /\ items' = items
    BY <1>5 DEF GenerateCell, VerifyCell, ExtractCell, JudgeCell, RateCell
  <2> QED  BY <2>1 DEF ItemsCounted
<1>6. ASSUME NEW c \in Cells, ScoreCell(c)
      PROVE  ItemsCounted'
  <2>1. /\ phase = "cells" /\ phase' = "cells" /\ roster' = roster
        /\ c \in todo /\ todo' = todo \ {c} /\ items' = items + 1
    BY <1>6 DEF ScoreCell, NextCell, Reached
  <2>2. roster \subseteq Cells /\ c \in roster
    BY <2>1 DEF TypeOK
  <2>3. IsFiniteSet(roster \ todo)
    <3>1. IsFiniteSet(Cells)
      BY FS_Interval DEF Cells
    <3> QED  BY <2>2, <3>1, FS_Subset
  <2>4. roster' \ todo' = (roster \ todo) \cup {c} /\ c \notin roster \ todo
    BY <2>1, <2>2
  <2>5. Cardinality((roster \ todo) \cup {c}) = Cardinality(roster \ todo) + 1
    BY <2>3, <2>4, FS_AddElement
  <2> QED  BY <2>1, <2>4, <2>5 DEF ItemsCounted
<1>7. CASE EndPass1 \/ EndExtract \/ EndJudge
  <2>1. phase \notin {"cells", "rate"} /\ items' = items /\ todo' = roster'
        /\ phase' # "rate" /\ roster' \ todo' = {}
    BY <1>7 DEF EndPass1, EndExtract, EndJudge
  <2> QED  BY <1>1, <2>1 DEF ItemsCounted
<1>8. CASE EndCells
  <2>1. /\ phase = "cells" /\ phase' = "rate" /\ items' = items
        /\ roster' = roster /\ roster \ todo = roster
    BY <1>8 DEF EndCells
  <2> QED  BY <2>1 DEF ItemsCounted
<1>9. CASE UNCHANGED vars \/ \E m \in Instruments : Expire(m)
  BY <1>9 DEF vars, session, Expire, ItemsCounted
<1> QED
  BY <1>3, <1>4, <1>5, <1>6, <1>7, <1>8, <1>9 DEF Next, Work

\* The study's data are these ledgers, read the same way.
LEMMA SameStudy ==
  /\ Promise!vars = <<gen, ver, ext, jud, runs>>
  /\ Promise!ledgers = ledgers
  /\ Promise!CallsOnRecord = CallsOnRecord
  /\ \A c : /\ Promise!Row(c) = Row(c) /\ Promise!Shown(c) = Shown(c)
            /\ Promise!HasDraft(c) <=> HasDraft(c)
            /\ Promise!HasVerdict(c) <=> HasVerdict(c)
  BY DEF Promise!vars, Promise!ledgers, ledgers, Promise!CallsOnRecord, CallsOnRecord,
         Promise!Row, Row, Promise!Shown, Shown, Promise!Abstains, Abstains,
         Promise!HasDraft, HasDraft, Promise!HasVerdict, HasVerdict,
         Promise!Verdict, Verdict, Promise!Cells, Cells

LEMMA StudyInit == Init => Promise!Init
  BY DEF Init, NoAnswers, Promise!Init, Promise!NoAnswers, Promise!Cells, Cells

\* Each recorded answer is one of the study's.
LEMMA StudyStep ==
  ASSUME TypeOK, SessionInv, ItemsCounted, [Next]_vars
  PROVE  Promise!Next \/ UNCHANGED Promise!vars
<1>1. ASSUME UNCHANGED <<ledgers, runs>>
      PROVE  UNCHANGED Promise!vars
  BY <1>1 DEF ledgers, Promise!vars
<1>2. CASE \/ StopAtBudget \/ EndGenerate \/ EndVerify \/ EndPass1 \/ EndExtract
           \/ EndJudge \/ EndCells \/ Crash
           \/ \E c \in Cells : ReplayMiss(c)
           \/ \E R \in Rosters, b \in BOOLEAN : Start(R, b)
           \/ \E m \in Instruments : Expire(m)
           \/ UNCHANGED vars
  <2>1. UNCHANGED <<ledgers, runs>>
    BY <1>2
       DEF StopAtBudget, EndGenerate, EndVerify, EndPass1, EndExtract, EndJudge,
           EndCells, Crash, ReplayMiss, Start, StartGenerate, StartVerify,
           StartScore, StartStep, Expire, vars, ledgers
  <2> QED  BY <1>1, <2>1
<1>3. ASSUME NEW c \in Cells, GenerateCell(c)
      PROVE  Promise!Next \/ UNCHANGED Promise!vars
  <2>1. UNCHANGED <<ver, ext, jud, runs>>
    BY <1>3 DEF GenerateCell
  <2>2. CASE HasDraft(c)
    BY <1>1, <1>3, <2>1, <2>2 DEF GenerateCell, ledgers
  <2>3. CASE ~HasDraft(c)
    <3>1. PICK t \in Texts : gen' = [gen EXCEPT ![c] = t]
      BY <1>3, <2>3 DEF GenerateCell
    <3>2. c \in Drafted /\ gen[c] = None
      BY <2>3 DEF HasDraft
    <3>3. Promise!Draft(c, t)
      BY <2>1, <3>1, <3>2 DEF Promise!Draft
    <3> QED  BY <3>2, <3>3 DEF Promise!Next
  <2> QED  BY <2>2, <2>3
<1>4. ASSUME NEW c \in Cells, VerifyCell(c)
      PROVE  Promise!Next \/ UNCHANGED Promise!vars
  <2>1. UNCHANGED <<gen, ext, jud, runs>> /\ HasDraft(c)
    BY <1>4 DEF VerifyCell
  <2>2. CASE HasVerdict(c)
    BY <1>1, <1>4, <2>1, <2>2 DEF VerifyCell, ledgers
  <2>3. CASE ~HasVerdict(c)
    <3>1. PICK v \in Verdicts : ver' = [ver EXCEPT ![Case[c]][gen[c]] = v]
      BY <1>4, <2>3 DEF VerifyCell
    <3>2. /\ Case[c] \in Cases /\ gen[c] \in Texts
          /\ ver[Case[c]][gen[c]] = None
      BY <2>1, <2>3 DEF HasDraft, HasVerdict, Verdict, TypeOK, Answers
    <3>3. Promise!Verify(Case[c], gen[c], v)
      BY <2>1, <3>1, <3>2 DEF Promise!Verify
    <3>4. v \in Promise!Verdicts
      BY DEF Promise!Verdicts, Verdicts
    <3> QED  BY <3>2, <3>3, <3>4 DEF Promise!Next
  <2> QED  BY <2>2, <2>3
<1>5. ASSUME NEW c \in Cells, ExtractCell(c) \/ ScoreCell(c)
      PROVE  Promise!Next \/ UNCHANGED Promise!vars
  <2>1. UNCHANGED <<gen, ver, jud, runs>> /\ ExtractShown(c) /\ Shown(c) \in Texts
    BY <1>5, ShownIsText DEF ExtractCell, ScoreCell
  <2>2. CASE ext[Shown(c)] # None
    BY <1>1, <2>1, <2>2 DEF ExtractShown, ledgers
  <2>3. CASE ext[Shown(c)] = None
    <3>1. PICK x \in Claims : ext' = [ext EXCEPT ![Shown(c)] = x]
      BY <2>1, <2>3 DEF ExtractShown
    <3>2. Promise!Extract(Shown(c), x)
      BY <2>1, <2>3, <3>1 DEF Promise!Extract
    <3> QED  BY <2>1, <3>2 DEF Promise!Next
  <2> QED  BY <2>2, <2>3
<1>6. ASSUME NEW t \in Texts, UNCHANGED <<gen, ver, ext, runs>>,
             \/ UNCHANGED jud
             \/ jud[t] = None /\ \E s \in Scores : jud' = [jud EXCEPT ![t] = s]
      PROVE  Promise!Next \/ UNCHANGED Promise!vars
  <2>1. CASE UNCHANGED jud
    BY <1>1, <1>6, <2>1 DEF ledgers
  <2>2. CASE jud[t] = None /\ \E s \in Scores : jud' = [jud EXCEPT ![t] = s]
    <3>1. PICK s \in Scores : jud' = [jud EXCEPT ![t] = s]
      BY <2>2
    <3>2. Promise!Judge(t, s)
      BY <1>6, <2>2, <3>1 DEF Promise!Judge
    <3> QED  BY <3>2 DEF Promise!Next
  <2> QED  BY <1>6, <2>1, <2>2
<1>7. ASSUME NEW c \in Cells, JudgeCell(c)
      PROVE  Promise!Next \/ UNCHANGED Promise!vars
  <2>1. Shown(c) \in Texts
    BY <1>7, ShownIsText DEF JudgeCell, NextRated, SessionInv, PassesDone, Extracted, TypeOK
  <2> QED  BY <1>6, <1>7, <2>1 DEF JudgeCell, Rate
<1>8. ASSUME NEW c \in Cells, JudgeRaises(c)
      PROVE  Promise!Next \/ UNCHANGED Promise!vars
  <2>1. Shown(c) \in Texts
    BY <1>8, ShownIsText
       DEF JudgeRaises, NextRated, SessionInv, PassesDone, RowsScored, Scored,
           Extracted, TypeOK
  <2> QED  BY <1>6, <1>8, <2>1 DEF JudgeRaises
<1>9. ASSUME NEW c \in Cells, RateCell(c)
      PROVE  Promise!Next \/ UNCHANGED Promise!vars
  <2>1. c \in roster /\ Scored(c)
    BY <1>9 DEF RateCell, NextRated, SessionInv, RowsScored, TypeOK
  <2>2. rows[c].text \in Texts
    BY <2>1, ShownIsText DEF Scored, Extracted
  <2> QED  BY <1>6, <1>9, <2>2 DEF RateCell, Rate
<1>10. CASE WriteRun
  <2>1. /\ phase = "rate" /\ todo = {} /\ UNCHANGED ledgers
        /\ runs' = runs \cup {[roster |-> roster,
                               rows |-> [c \in roster |-> rows[c]],
                               items |-> items, calls |-> CallsOnRecord]}
    BY <1>10 DEF WriteRun
  <2>2. roster \in Rosters /\ items = Cardinality(roster)
    BY <2>1 DEF TypeOK, ItemsCounted
  <2>3. \A c \in roster : /\ rows[c] = Promise!Row(c)
                          /\ Promise!HasDraft(c) /\ Promise!HasVerdict(c)
                          /\ ext[Promise!Shown(c)] # None /\ jud[Promise!Shown(c)] # None
    BY <2>1, WrittenReplays, SameStudy
  <2>4. Promise!Ready(roster)
    BY <2>3 DEF Promise!Ready
  <2>5. [c \in roster |-> rows[c]] = [c \in roster |-> Promise!Row(c)]
    BY <2>3
  <2>6. Promise!Publish(roster)
    <3>1. runs' = runs \cup {[roster |-> roster,
                              rows |-> [c \in roster |-> Promise!Row(c)],
                              items |-> Cardinality(roster),
                              calls |-> Promise!CallsOnRecord]}
      BY <2>1, <2>2, <2>5, SameStudy
    <3>2. UNCHANGED Promise!ledgers
      BY <2>1 DEF Promise!ledgers, ledgers
    <3>3. Promise!Cardinality(roster) = Cardinality(roster)
      BY DEF Promise!Cardinality, Cardinality
    <3> QED  BY <2>4, <3>1, <3>2, <3>3 DEF Promise!Publish
  <2> QED  BY <2>2, <2>6 DEF Promise!Next
<1> QED
  BY <1>2, <1>3, <1>4, <1>5, <1>7, <1>8, <1>9, <1>10 DEF Next, Work

\* A study run in budgeted, killed and repeated sessions is a study: answers
\* are recorded once, and what is published is the replay of the whole roster,
\* each item counted once (execute.py: "the run is the one an unbudgeted score
\* step writes").
THEOREM SessionsImplementStudy == Spec => ImplementsStudy
<1>1. Init => ItemsCounted
  BY DEF Init, ItemsCounted
<1>2. Inductive /\ ItemsCounted /\ [Next]_vars => ItemsCounted'
  BY CountStep DEF Inductive
<1>3. Inductive /\ ItemsCounted /\ [Next]_vars => [Promise!Next]_(Promise!vars)
  BY StudyStep DEF Inductive
<1>4. Init => Promise!Init
  BY StudyInit
<1> QED  BY <1>1, <1>2, <1>3, <1>4, InductiveAlways, PTL
            DEF Spec, ImplementsStudy, Promise!Spec
================================================================================
