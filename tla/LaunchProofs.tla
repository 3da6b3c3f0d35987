----------------------------- MODULE LaunchProofs ------------------------------
(***************************************************************************)
(* What a chain of sessions guarantees for every study, any instruments,   *)
(* any builds a registry may serve and any number of faults.               *)
(***************************************************************************)
EXTENDS Launch, FiniteSetTheorems, TLAPS

USE LaunchAssumption

(***************************************************************************)
(* What is true of the ledgers of an export, and of those a session holds. *)
(***************************************************************************)
IsLedger(l) ==
  /\ l = [r \in DOMAIN l |-> l[r]]
  /\ IsFiniteSet(DOMAIN l)

AreLedgers(E) ==
  /\ E = [k \in Kinds |-> [t \in Tags |-> E[k][t]]]
  /\ \A k \in Kinds, t \in Tags : IsLedger(E[k][t])

Owned(E) ==
  \A k \in Kinds, s \in Studies :
    \A r \in DOMAIN E[k][Tag(s)] : r[1] = s /\ r[2] \in CellsOf[s]

AboutDrafts(E) ==
  \A k \in Kinds \ {"generation"}, s \in Studies :
    \A r \in DOMAIN E[k][Tag(s)] :
      LET drafted == E["generation"][Tag(s)]
      IN <<s, r[2]>> \in DOMAIN drafted /\ drafted[<<s, r[2]>>] = r[3]

OfThePins(E) ==
  \A k \in Kinds \ {"generation"}, t \in Tags :
    \A r \in DOMAIN E[k][t] : E[k][t][r] = Pins

Sound(E) == AreLedgers(E) /\ Owned(E) /\ AboutDrafts(E) /\ OfThePins(E)

(***************************************************************************)
(* The inductive invariant.                                                *)
(***************************************************************************)
Places == {"serve", "EXP-G-001", "EXP-G-002", "gated", "step", "export"}

\* The fields of a session; its ledgers and pulls are described below.
SessionShape ==
  session \in [phase : Phases, study : Studies, ledgers : {session.ledgers},
               at : Places, served : {session.served}, called : BOOLEAN,
               tokens : SUBSET Gates, run : BOOLEAN]

Served(who) ==
  /\ \A k \in DOMAIN who.served : who.served[k] = Pins
  /\ who.at # "serve" => AskedIn(who.phase) \ {"generation"} \subseteq DOMAIN who.served

Whole(s, E) == \A k \in Kinds : Due(k, s, E) = {}

SessionInv ==
  session # None =>
    /\ SessionShape
    /\ Sound(session.ledgers) /\ Within(latest, session.ledgers)
    /\ Served(session)
    /\ session.phase = "score" /\ session.at = "step" => session.tokens = Gates
    /\ session.run => /\ session.at = "export" /\ session.tokens = Gates
                      /\ Whole(session.study, session.ledgers)

Inductive ==
  /\ faults \in 0..MaxFaults
  /\ Sound(latest) /\ Sound(kept) /\ Within(kept, latest)
  /\ SessionInv
  /\ \A p \in published : p.study \in Studies /\ p.tokens = Gates /\ Whole(p.study, latest)

(***************************************************************************)
(* Tags and ledgers.                                                       *)
(***************************************************************************)
LEMMA ATagHasOneStudy ==
  ASSUME NEW s \in Studies, NEW t \in Studies, Tag(s) = Tag(t)
  PROVE  s = t
  BY DEF Tag

LEMMA ATagIsATag ==
  ASSUME NEW s \in Studies
  PROVE  Tag(s) \in Tags
  BY DEF Tags

LEMMA WithinItself ==
  ASSUME NEW E
  PROVE  Within(E, E)
  BY DEF Within

LEMMA WithinChain ==
  ASSUME NEW D, NEW E, NEW F, Within(D, E), Within(E, F)
  PROVE  Within(D, F)
<1> SUFFICES ASSUME NEW k \in Kinds, NEW t \in Tags
             PROVE  /\ DOMAIN D[k][t] \subseteq DOMAIN F[k][t]
                    /\ \A r \in DOMAIN D[k][t] : D[k][t][r] = F[k][t][r]
  BY DEF Within
<1>1. /\ DOMAIN D[k][t] \subseteq DOMAIN E[k][t]
      /\ \A r \in DOMAIN D[k][t] : D[k][t][r] = E[k][t][r]
  BY DEF Within
<1>2. /\ DOMAIN E[k][t] \subseteq DOMAIN F[k][t]
      /\ \A r \in DOMAIN E[k][t] : E[k][t][r] = F[k][t][r]
  BY DEF Within
<1> QED  BY <1>1, <1>2

LEMMA NoLedgersAreSound == Sound(NoLedgers)
<1>1. \A k \in Kinds, t \in Tags : NoLedgers[k][t] = Empty
  BY DEF NoLedgers
<1>2. DOMAIN Empty = {} /\ IsLedger(Empty)
  BY FS_EmptySet DEF Empty, IsLedger
<1>3. AreLedgers(NoLedgers)
  <2>1. NoLedgers = [k \in Kinds |-> [t \in Tags |-> NoLedgers[k][t]]]
    BY DEF NoLedgers
  <2> QED  BY <1>1, <1>2, <2>1 DEF AreLedgers
<1>4. Owned(NoLedgers) /\ AboutDrafts(NoLedgers) /\ OfThePins(NoLedgers)
  BY <1>1, <1>2, ATagIsATag DEF Owned, AboutDrafts, OfThePins
<1> QED  BY <1>3, <1>4 DEF Sound

(***************************************************************************)
(* The restore.                                                            *)
(***************************************************************************)
\* Of two copies one of which holds the other's calls, the longest is that one.
LEMMA LongestIsNewest ==
  ASSUME NEW a, NEW b, IsLedger(a), IsLedger(b), DOMAIN a \subseteq DOMAIN b,
         \A r \in DOMAIN a : a[r] = b[r]
  PROVE  Best({b, a}) = b
<1> DEFINE longest == Best({b, a})
<1>1. /\ Lines(a) \in Nat /\ Lines(b) \in Nat /\ Lines(a) <= Lines(b)
      /\ Lines(a) = Lines(b) => DOMAIN a = DOMAIN b
  BY FS_CardinalityType, FS_Subset DEF Lines, IsLedger
<1>2. \E l \in {b, a} : \A m \in {b, a} : Lines(m) <= Lines(l)
  BY <1>1
<1>3. longest \in {b, a} /\ \A m \in {b, a} : Lines(m) <= Lines(longest)
  BY <1>2 DEF Best
<1>4. CASE longest = a
  <2>1. DOMAIN a = DOMAIN b
    BY <1>1, <1>3, <1>4
  <2>2. a = b
    BY <2>1 DEF IsLedger
  <2> QED  BY <1>4, <2>2
<1> QED  BY <1>3, <1>4

\* The newest export is restored as it is, whatever older one lies beside it.
LEMMA RestoresTheNewest ==
  ASSUME NEW newest, NEW older, AreLedgers(newest), AreLedgers(older), Within(older, newest)
  PROVE  Restored({newest, older}) = newest
<1>1. ASSUME NEW k \in Kinds, NEW t \in Tags
      PROVE  Best({e[k][t] : e \in {newest, older}}) = newest[k][t]
  <2>1. {e[k][t] : e \in {newest, older}} = {newest[k][t], older[k][t]}
    OBVIOUS
  <2>2. IsLedger(newest[k][t]) /\ IsLedger(older[k][t])
    BY DEF AreLedgers
  <2>3. /\ DOMAIN older[k][t] \subseteq DOMAIN newest[k][t]
        /\ \A r \in DOMAIN older[k][t] : older[k][t][r] = newest[k][t][r]
    BY DEF Within
  <2> QED  BY <2>1, <2>2, <2>3, LongestIsNewest
<1>2. Restored({newest, older}) = [k \in Kinds |-> [t \in Tags |-> newest[k][t]]]
  BY <1>1 DEF Restored
<1> QED  BY <1>2 DEF AreLedgers

(***************************************************************************)
(* A call.                                                                 *)
(***************************************************************************)
\* A call that was due is added to its own ledger, and to no other.
LEMMA ACallIsAdded ==
  ASSUME NEW E, AreLedgers(E), NEW k \in Kinds, NEW s \in Studies,
         NEW r \in Due(k, s, E), NEW answer
  PROVE  LET F == Recorded(E, k, s, r, answer)
         IN /\ AreLedgers(F) /\ Within(E, F)
            /\ \A q \in Kinds, t \in Tags : q # k \/ t # Tag(s) => F[q][t] = E[q][t]
            /\ DOMAIN F[k][Tag(s)] = DOMAIN E[k][Tag(s)] \cup {r}
            /\ \A q \in DOMAIN E[k][Tag(s)] : F[k][Tag(s)][q] = E[k][Tag(s)][q]
            /\ F[k][Tag(s)][r] = answer
<1> DEFINE F == Recorded(E, k, s, r, answer)
           old == E[k][Tag(s)]
           new == F[k][Tag(s)]
<1>1. Tag(s) \in Tags /\ IsLedger(old) /\ r \notin DOMAIN old
  BY ATagIsATag DEF AreLedgers, Due
<1>2. F = [q \in Kinds |-> [t \in Tags |->
             IF q = k /\ t = Tag(s) THEN With(old, r, answer) ELSE E[q][t]]]
  BY <1>1 DEF AreLedgers, Recorded
<1>3. /\ new = With(old, r, answer)
      /\ \A q \in Kinds, t \in Tags : q # k \/ t # Tag(s) => F[q][t] = E[q][t]
  BY <1>1, <1>2
<1> HIDE DEF F
<1>4. /\ DOMAIN new = DOMAIN old \cup {r} /\ new[r] = answer
      /\ \A q \in DOMAIN old : new[q] = old[q]
      /\ new = [q \in DOMAIN new |-> new[q]]
  BY <1>1, <1>3 DEF With
<1>5. IsLedger(new)
  BY <1>1, <1>4, FS_AddElement DEF IsLedger
<1>6. \A q \in Kinds, t \in Tags : IsLedger(F[q][t])
  BY <1>3, <1>5 DEF AreLedgers
<1>7. F = [q \in Kinds |-> [t \in Tags |-> F[q][t]]]
  BY <1>2
<1>8. AreLedgers(F)
  BY <1>6, <1>7 DEF AreLedgers
<1>9. Within(E, F)
  BY <1>3, <1>4 DEF Within
<1> QED  BY <1>3, <1>4, <1>8, <1>9 DEF F

\* A study asks a generator about its cells, an instrument about their drafts.
LEMMA ARequestIsOfItsStudy ==
  ASSUME NEW E, NEW k \in Kinds, NEW s \in Studies, NEW r \in Requests(k, s, E)
  PROVE  /\ k = "generation" => r \in Prompts(s)
         /\ k # "generation" => r \in About(s, E["generation"][Tag(s)], CellsOf[s])
  BY DEF Requests, About

\* A call keeps the ledgers sound: it is the study's, about the draft on record,
\* and answered by the pinned build; and a new draft is of a cell without one.
LEMMA ACallIsSound ==
  ASSUME NEW E, Sound(E), NEW k \in Kinds, NEW s \in Studies,
         NEW r \in Due(k, s, E), NEW answer, k # "generation" => answer = Pins
  PROVE  Sound(Recorded(E, k, s, r, answer)) /\ Within(E, Recorded(E, k, s, r, answer))
<1> DEFINE F == Recorded(E, k, s, r, answer)
<1>1. AreLedgers(E) /\ r \in Requests(k, s, E)
      /\ Tag(s) \in Tags /\ "generation" \in Kinds
  BY ATagIsATag DEF Sound, Due, Kinds
<1>2. /\ AreLedgers(F) /\ Within(E, F)
      /\ \A q \in Kinds, t \in Tags : q # k \/ t # Tag(s) => F[q][t] = E[q][t]
      /\ DOMAIN F[k][Tag(s)] = DOMAIN E[k][Tag(s)] \cup {r}
      /\ \A q \in DOMAIN E[k][Tag(s)] : F[k][Tag(s)][q] = E[k][Tag(s)][q]
      /\ F[k][Tag(s)][r] = answer
  BY <1>1, ACallIsAdded
<1> HIDE DEF F
<1>3. /\ r[1] = s /\ r[2] \in CellsOf[s]
      /\ k # "generation" =>
           /\ <<s, r[2]>> \in DOMAIN E["generation"][Tag(s)]
           /\ r[3] = E["generation"][Tag(s)][<<s, r[2]>>]
  <2>1. /\ k = "generation" => r \in Prompts(s)
        /\ k # "generation" => r \in About(s, E["generation"][Tag(s)], CellsOf[s])
    BY <1>1, ARequestIsOfItsStudy
  <2>2. CASE k = "generation"
    BY <2>1, <2>2 DEF Prompts
  <2>3. CASE k # "generation"
    <3>1. PICK c \in CellsOf[s] :
             /\ <<s, c>> \in DOMAIN E["generation"][Tag(s)]
             /\ r = <<s, c, E["generation"][Tag(s)][<<s, c>>]>>
      BY <2>1, <2>3 DEF About
    <3> QED  BY <2>3, <3>1
  <2> QED  BY <2>2, <2>3
<1>4. Owned(F)
  <2> SUFFICES ASSUME NEW q \in Kinds, NEW t \in Studies, NEW x \in DOMAIN F[q][Tag(t)]
               PROVE  x[1] = t /\ x[2] \in CellsOf[t]
    BY DEF Owned
  <2>1. CASE x \in DOMAIN E[q][Tag(t)]
    BY <2>1 DEF Sound, Owned
  <2>2. CASE x \notin DOMAIN E[q][Tag(t)]
    <3>1. q = k /\ Tag(t) = Tag(s) /\ x = r
      BY <1>2, <2>2, ATagIsATag
    <3> QED  BY <1>3, <3>1, ATagHasOneStudy
  <2> QED  BY <2>1, <2>2
<1>5. AboutDrafts(F)
  <2> SUFFICES ASSUME NEW q \in Kinds \ {"generation"}, NEW t \in Studies,
                      NEW x \in DOMAIN F[q][Tag(t)]
               PROVE  /\ <<t, x[2]>> \in DOMAIN F["generation"][Tag(t)]
                      /\ F["generation"][Tag(t)][<<t, x[2]>>] = x[3]
    BY DEF AboutDrafts
  <2>1. /\ <<t, x[2]>> \in DOMAIN E["generation"][Tag(t)]
        /\ E["generation"][Tag(t)][<<t, x[2]>>] = x[3]
    <3>1. CASE x \in DOMAIN E[q][Tag(t)]
      BY <3>1 DEF Sound, AboutDrafts
    <3>2. CASE x \notin DOMAIN E[q][Tag(t)]
      <4>1. q = k /\ Tag(t) = Tag(s) /\ x = r
        BY <1>2, <3>2, ATagIsATag
      <4> QED  BY <1>3, <4>1, ATagHasOneStudy
    <3> QED  BY <3>1, <3>2
  <2>2. Tag(t) \in Tags
    BY ATagIsATag
  <2> QED  BY <1>1, <1>2, <2>1, <2>2 DEF Within
<1>6. OfThePins(F)
  <2> SUFFICES ASSUME NEW q \in Kinds \ {"generation"}, NEW t \in Tags, NEW x \in DOMAIN F[q][t]
               PROVE  F[q][t][x] = Pins
    BY DEF OfThePins
  <2>1. CASE x \in DOMAIN E[q][t]
    BY <1>2, <2>1 DEF Sound, OfThePins, Within
  <2>2. CASE x \notin DOMAIN E[q][t]
    BY <1>2, <2>2
  <2> QED  BY <2>1, <2>2
<1> QED  BY <1>2, <1>4, <1>5, <1>6 DEF Sound, F

\* A study with every answer keeps having every answer: its drafts stay, so do
\* the requests about them.
LEMMA WholeStaysWhole ==
  ASSUME NEW E, NEW F, Within(E, F), NEW s \in Studies, Whole(s, E)
  PROVE  Whole(s, F)
<1> DEFINE drafted(G) == G["generation"][Tag(s)]
<1>1. Tag(s) \in Tags /\ "generation" \in Kinds
  BY ATagIsATag DEF Kinds
<1>2. \A c \in CellsOf[s] : /\ <<s, c>> \in DOMAIN drafted(E) /\ <<s, c>> \in DOMAIN drafted(F)
                            /\ drafted(E)[<<s, c>>] = drafted(F)[<<s, c>>]
  <2>1. Prompts(s) \subseteq DOMAIN drafted(E)
    BY <1>1 DEF Whole, Due, Requests
  <2> QED  BY <1>1, <2>1 DEF Prompts, Within
<1>3. ASSUME NEW cells \in SUBSET CellsOf[s]
      PROVE  About(s, drafted(F), cells) = About(s, drafted(E), cells)
  <2>1. /\ {d \in cells : <<s, d>> \in DOMAIN drafted(E)} = cells
        /\ {d \in cells : <<s, d>> \in DOMAIN drafted(F)} = cells
    BY <1>2
  <2> DEFINE asked(c) == <<s, c, drafted(E)[<<s, c>>]>>
             now(c) == <<s, c, drafted(F)[<<s, c>>]>>
  <2>2. /\ About(s, drafted(E), cells) = {asked(c) : c \in cells}
        /\ About(s, drafted(F), cells) = {now(c) : c \in cells}
    BY <2>1, Zenon DEF About
  <2>3. \A c \in cells : asked(c) = now(c)
    BY <1>2
  <2> HIDE DEF asked, now
  <2>4. {asked(c) : c \in cells} = {now(c) : c \in cells}
    BY <2>3
  <2> QED  BY <2>2, <2>4
<1>4. ASSUME NEW k \in Kinds
      PROVE  Requests(k, s, F) = Requests(k, s, E)
  <2>1. (CellsOf[s] \cap Verified) \in SUBSET CellsOf[s] /\ CellsOf[s] \in SUBSET CellsOf[s]
    OBVIOUS
  <2> QED  BY <1>3, <2>1 DEF Requests
<1>5. ASSUME NEW k \in Kinds
      PROVE  Due(k, s, F) = {}
  <2>1. Requests(k, s, E) \subseteq DOMAIN E[k][Tag(s)]
    BY DEF Whole, Due
  <2>2. DOMAIN E[k][Tag(s)] \subseteq DOMAIN F[k][Tag(s)]
    BY <1>1 DEF Within
  <2> QED  BY <1>4, <2>1, <2>2 DEF Due
<1> QED  BY <1>5 DEF Whole

(***************************************************************************)
(* The steps.                                                              *)
(***************************************************************************)
LEMMA InductiveInit == Init => Inductive
  BY NoLedgersAreSound, WithinItself DEF Init, Inductive, SessionInv

\* While nothing is exported, the invariant is the session's.
LEMMA OnlyTheSession ==
  ASSUME Inductive, SessionInv', faults' \in 0..MaxFaults, UNCHANGED <<latest, kept, published>>
  PROVE  Inductive'
  BY DEF Inductive, Whole

LEMMA FaultsAreBounded ==
  ASSUME Inductive, UNCHANGED faults \/ Fault
  PROVE  faults' \in 0..MaxFaults
  BY DEF Inductive, Fault

\* A session starts with the newest ledgers, whatever else is attached.
LEMMA StartKeeps ==
  ASSUME Inductive, NEW phase \in Phases, NEW s \in Studies, Launched(phase, s)
  PROVE  Inductive'
<1>1. PICK older \in {latest, kept} : Start(phase, s, {latest, older})
  BY DEF Launched
<1>2. AreLedgers(latest) /\ AreLedgers(older) /\ Within(older, latest)
  BY <1>1, WithinItself DEF Inductive, Sound
<1>3. Restored({latest, older}) = latest
  BY <1>2, RestoresTheNewest
<1>4. session' = [phase |-> phase, study |-> s, ledgers |-> latest,
                  at |-> IF phase = "generate" THEN "step" ELSE "serve",
                  served |-> NoneServed, called |-> FALSE, tokens |-> {}, run |-> FALSE]
  BY <1>1, <1>3 DEF Start
<1>5. UNCHANGED <<latest, kept, published, faults>>
  BY <1>1 DEF Start
<1>6. SessionShape'
  BY <1>4 DEF SessionShape, Places
<1>7. Sound(session.ledgers)' /\ Within(latest, session.ledgers)'
  BY <1>4, <1>5, WithinItself DEF Inductive
<1>8. Served(session)'
  BY <1>4 DEF Served, NoneServed, AskedIn
<1>9. ~session'.run /\ ~(session'.phase = "score" /\ session'.at = "step")
  BY <1>4
<1>10. SessionInv'
  BY <1>6, <1>7, <1>8, <1>9 DEF SessionInv
<1> QED  BY <1>5, <1>10, OnlyTheSession, FaultsAreBounded

\* An instrument is pulled: only a build of the pinned weights is let in.
LEMMA ServeKeeps ==
  ASSUME Inductive, NEW k \in Kinds, NEW build \in Builds, Serve(k, build)
  PROVE  Inductive'
<1>1. CASE ~MatchesPins(build) /\ Fault /\ session' = None
  BY <1>1, OnlyTheSession, FaultsAreBounded DEF Serve, SessionInv
<1>2. CASE ~(~MatchesPins(build) /\ Fault /\ session' = None)
  <2> DEFINE served == [q \in DOMAIN session.served \cup {k} |->
                          IF q = k THEN Weights(build) ELSE session.served[q]]
             rest == (AskedIn(session.phase) \ {"generation"}) \ DOMAIN served
             next == IF rest # {} THEN "serve"
                     ELSE IF session.phase = "score" THEN "EXP-G-001" ELSE "step"
  <2>1. /\ Running("serve") /\ MatchesPins(build) /\ UNCHANGED <<latest, kept, published, faults>>
        /\ session' = [session EXCEPT !.served = served, !.at = next]
    BY <1>2 DEF Serve
  <2>2. session # None /\ session.at = "serve"
    BY <2>1 DEF Running
  <2>3. Weights(build) = Pins
    BY <2>1 DEF Weights, MatchesPins
  <2>4. \A q \in DOMAIN served : served[q] = Pins
    BY <2>2, <2>3 DEF Inductive, SessionInv, Served
  <2>5. next # "serve" => AskedIn(session.phase) \ {"generation"} \subseteq DOMAIN served
    OBVIOUS
  <2>6. next \in Places /\ (next = "step" => session.phase # "score")
    BY DEF Places
  <2> HIDE DEF served, next
  <2>7. SessionShape
    BY <2>2 DEF Inductive, SessionInv
  <2>8. SessionShape' /\ session'.ledgers = session.ledgers /\ session'.phase = session.phase
        /\ session'.run = session.run /\ session'.at = next /\ session'.served = served
    BY <2>1, <2>6, <2>7 DEF SessionShape
  <2>9. Sound(session.ledgers)' /\ Within(latest, session.ledgers)'
    BY <2>1, <2>2, <2>8 DEF Inductive, SessionInv
  <2>10. Served(session)'
    BY <2>4, <2>5, <2>8 DEF Served
  <2>11. ~session'.run
    BY <2>2, <2>8 DEF Inductive, SessionInv
  <2>12. SessionInv'
    BY <2>6, <2>8, <2>9, <2>10, <2>11 DEF SessionInv
  <2> QED  BY <2>1, <2>12, OnlyTheSession, FaultsAreBounded
<1> QED  BY <1>1, <1>2

\* A session whose instruments are served moves on with its ledgers as they are.
LEMMA MovingOnKeeps ==
  ASSUME Inductive, session # None, session.at # "serve",
         NEW next \in Places, NEW tokens \in SUBSET Gates, NEW run \in BOOLEAN,
         session' = [session EXCEPT !.at = next, !.tokens = tokens, !.run = run],
         next # "serve",
         session.phase = "score" /\ next = "step" => tokens = Gates,
         run => next = "export" /\ tokens = Gates /\ Whole(session.study, session.ledgers),
         UNCHANGED <<latest, kept, published>>, UNCHANGED faults \/ Fault
  PROVE  Inductive'
<1>1. SessionShape
  BY DEF Inductive, SessionInv
<1>2. /\ session'.ledgers = session.ledgers /\ session'.phase = session.phase
      /\ session'.study = session.study /\ session'.served = session.served
      /\ session'.at = next /\ session'.tokens = tokens /\ session'.run = run
      /\ SessionShape'
  BY <1>1 DEF SessionShape
<1>3. Sound(session.ledgers)' /\ Within(latest, session.ledgers)'
  BY <1>2 DEF Inductive, SessionInv
<1>4. Served(session)'
  BY <1>2 DEF Inductive, SessionInv, Served
<1>5. SessionInv'
  BY <1>2, <1>3, <1>4, Zenon DEF SessionInv
<1> QED  BY <1>5, OnlyTheSession, FaultsAreBounded

LEMMA GateRunKeeps ==
  ASSUME Inductive, NEW g \in Gates, GateRun(g)
  PROVE  Inductive'
<1>1. SessionShape /\ session # None /\ session.at = g /\ ~session.run
  BY DEF GateRun, Running, Inductive, SessionInv, Gates
<1>2. UNCHANGED <<latest, kept, published>>
  BY DEF GateRun
<1> DEFINE next == IF g = "EXP-G-001" THEN "EXP-G-002" ELSE "gated"
<1>3. next \in Places /\ next \notin {"serve", "step"}
  BY DEF Places
<1>4. "export" \in Places /\ session.at # "serve"
  BY <1>1 DEF Gates, Places
<1>5. session.tokens \in SUBSET Gates /\ session.tokens \cup {g} \in SUBSET Gates
  BY <1>1 DEF SessionShape
<1>6. CASE session' = [session EXCEPT !.tokens = @ \cup {g}, !.at = next] /\ UNCHANGED faults
  <2>1. session' = [session EXCEPT !.at = next, !.tokens = session.tokens \cup {g}, !.run = FALSE]
    BY <1>1, <1>6 DEF SessionShape
  <2> HIDE DEF next
  <2> QED  BY <1>1, <1>2, <1>3, <1>4, <1>5, <1>6, <2>1, MovingOnKeeps
<1>7. ASSUME NEW place \in {next, "export"},
             Fault, session' = [session EXCEPT !.at = place]
      PROVE  Inductive'
  <2>1. session' = [session EXCEPT !.at = place, !.tokens = session.tokens, !.run = FALSE]
    BY <1>1, <1>7 DEF SessionShape
  <2>2. place \in Places /\ place \notin {"serve", "step"}
    BY <1>3, <1>4
  <2> HIDE DEF next
  <2> QED  BY <1>1, <1>2, <1>4, <1>5, <1>7, <2>1, <2>2, MovingOnKeeps
<1> QED  BY <1>6, <1>7 DEF GateRun

LEMMA EnforceGatesKeeps ==
  ASSUME Inductive, EnforceGates
  PROVE  Inductive'
<1> DEFINE next == IF session.tokens = Gates THEN "step" ELSE "export"
<1>1. SessionShape /\ session # None /\ session.at = "gated" /\ ~session.run
  BY DEF EnforceGates, Running, Inductive, SessionInv
<1>2. next \in Places /\ next # "serve" /\ (next = "step" => session.tokens = Gates)
  BY DEF Places
<1>3. session' = [session EXCEPT !.at = next, !.tokens = session.tokens, !.run = FALSE]
  BY <1>1 DEF EnforceGates, SessionShape
<1>4. UNCHANGED <<latest, kept, published, faults>> /\ session.tokens \in SUBSET Gates
  BY <1>1 DEF EnforceGates, SessionShape
<1> HIDE DEF next
<1> QED  BY <1>1, <1>2, <1>3, <1>4, MovingOnKeeps

\* Every way the step ends: only a score step that replayed every draft and made
\* every instrument call writes a run.
LEMMA StepEndsKeep ==
  ASSUME Inductive, StepEnds \/ StopsAtBudget \/ StepMisses \/ StepFails
  PROVE  Inductive'
<1> DEFINE run == StepEnds /\ session.phase = "score"
<1>1. SessionShape /\ session # None /\ session.at = "step" /\ ~session.run
  BY DEF StepEnds, StopsAtBudget, StepMisses, StepFails, Running, Inductive, SessionInv
<1>2. run \in BOOLEAN
  OBVIOUS
<1>3. session' = [session EXCEPT !.at = "export", !.tokens = session.tokens, !.run = run]
  <2>1. CASE StepEnds
    BY <1>1, <2>1 DEF StepEnds, SessionShape
  <2>2. CASE ~StepEnds
    <3>1. session' = [session EXCEPT !.at = "export"] /\ ~run
      BY <2>2 DEF StopsAtBudget, StepMisses, StepFails
    <3> QED  BY <1>1, <3>1 DEF SessionShape
  <2> QED  BY <2>1, <2>2
<1>4. run => session.tokens = Gates /\ Whole(session.study, session.ledgers)
  <2> SUFFICES ASSUME StepEnds, session.phase = "score"
               PROVE  session.tokens = Gates /\ Whole(session.study, session.ledgers)
    OBVIOUS
  <2>1. session.tokens = Gates
    BY <1>1 DEF Inductive, SessionInv
  <2>2. Due("generation", session.study, session.ledgers) = {}
    BY DEF StepEnds, Replays, Replayed, Due, Requests, Prompts
  <2>3. \A k \in {"verifier"} \cup Readers : Due(k, session.study, session.ledgers) = {}
    BY DEF StepEnds, NothingDue, AskedIn
  <2> QED  BY <2>1, <2>2, <2>3 DEF Whole, Kinds
<1>5. UNCHANGED <<latest, kept, published>> /\ (UNCHANGED faults \/ Fault)
  BY DEF StepEnds, StopsAtBudget, StepMisses, StepFails
<1>6. session.tokens \in SUBSET Gates /\ "export" \in Places
  BY <1>1 DEF SessionShape, Places
<1> HIDE DEF run
<1> QED  BY <1>1, <1>2, <1>3, <1>4, <1>5, <1>6, MovingOnKeeps

\* A call is recorded in the ledger it belongs to.
LEMMA CallKeeps ==
  ASSUME Inductive, NEW k \in Kinds, Call(k)
  PROVE  Inductive'
<1>1. /\ SessionShape /\ session # None /\ session.at = "step" /\ ~session.run
      /\ Sound(session.ledgers) /\ Within(latest, session.ledgers) /\ Served(session)
      /\ k \in AskedIn(session.phase) /\ session.study \in Studies
  BY DEF Call, Running, Inductive, SessionInv, SessionShape
<1>2. PICK r \in Due(k, session.study, session.ledgers) :
      \E answer \in (IF k = "generation" THEN Drafts[r[2]] ELSE {session.served[k]}) :
        session' = [session EXCEPT
          !.ledgers = Recorded(session.ledgers, k, session.study, r, answer), !.called = TRUE]
  BY DEF Call
<1>3. PICK answer :
        /\ k # "generation" => answer = session.served[k]
        /\ session' = [session EXCEPT
             !.ledgers = Recorded(session.ledgers, k, session.study, r, answer), !.called = TRUE]
  BY <1>2
<1> DEFINE now == Recorded(session.ledgers, k, session.study, r, answer)
<1>4. Sound(now) /\ Within(session.ledgers, now)
  <2>1. k # "generation" => answer = Pins
    BY <1>1, <1>3 DEF Served
  <2> QED  BY <1>1, <2>1, ACallIsSound
<1> HIDE DEF now
<1>5. /\ session'.ledgers = now /\ session'.phase = session.phase
      /\ session'.study = session.study /\ session'.served = session.served
      /\ session'.at = "step" /\ session'.tokens = session.tokens /\ ~session'.run
      /\ SessionShape'
  BY <1>1, <1>3 DEF SessionShape, now
<1>6. UNCHANGED <<latest, kept, published, faults>>
  BY DEF Call
<1>7. Sound(session.ledgers)' /\ Within(latest, session.ledgers)'
  BY <1>1, <1>4, <1>5, <1>6, WithinChain
<1>8. Served(session)'
  BY <1>1, <1>5 DEF Served
<1>9. session.phase = "score" => session.tokens = Gates
  BY <1>1 DEF Inductive, SessionInv
<1>10. SessionInv'
  BY <1>5, <1>7, <1>8, <1>9, Zenon DEF SessionInv
<1> QED  BY <1>6, <1>10, OnlyTheSession, FaultsAreBounded

\* An export holds what the one before it held, and what its run rests on.
LEMMA ExportKeeps ==
  ASSUME Inductive, Export
  PROVE  Inductive'
<1>1. /\ session # None /\ SessionShape
      /\ Sound(session.ledgers) /\ Within(latest, session.ledgers)
      /\ session.run => /\ session.tokens = Gates
                        /\ Whole(session.study, session.ledgers)
  BY DEF Export, Running, Inductive, SessionInv
<1>2. /\ latest' = session.ledgers /\ kept' \in {kept, latest}
      /\ session' = None /\ UNCHANGED faults
  BY DEF Export
<1>3. Sound(latest') /\ Sound(kept')
  BY <1>1, <1>2 DEF Inductive
<1>4. Within(kept', latest')
  BY <1>1, <1>2, WithinChain DEF Inductive
<1>5. ASSUME NEW p \in published'
      PROVE  p.study \in Studies /\ p.tokens = Gates /\ Whole(p.study, latest')
  <2>1. CASE p \in published
    BY <1>1, <1>2, <2>1, WholeStaysWhole DEF Inductive
  <2>2. CASE p \notin published
    <3>1. session.run /\ p = [study |-> session.study, tokens |-> session.tokens]
      BY <2>2 DEF Export
    <3>2. session.study \in Studies
      BY <1>1 DEF SessionShape
    <3> QED  BY <1>1, <1>2, <3>1, <3>2
  <2> QED  BY <2>1, <2>2
<1> QED  BY <1>2, <1>3, <1>4, <1>5 DEF Inductive, SessionInv, Whole

LEMMA InductiveStep == Inductive /\ [Next]_vars => Inductive'
<1> SUFFICES ASSUME Inductive, [Next]_vars PROVE Inductive'
  OBVIOUS
<1>1. ASSUME NEW phase \in Phases, NEW s \in Studies, Launched(phase, s)
      PROVE  Inductive'
  BY <1>1, StartKeeps
<1>2. ASSUME NEW k \in Kinds, NEW build \in Builds, Serve(k, build)
      PROVE  Inductive'
  BY <1>2, ServeKeeps
<1>3. ASSUME NEW g \in Gates, GateRun(g)
      PROVE  Inductive'
  BY <1>3, GateRunKeeps
<1>4. CASE EnforceGates
  BY <1>4, EnforceGatesKeeps
<1>5. ASSUME NEW k \in Kinds, Call(k)
      PROVE  Inductive'
  BY <1>5, CallKeeps
<1>6. CASE StepEnds \/ StopsAtBudget \/ StepMisses \/ StepFails
  BY <1>6, StepEndsKeep
<1>7. CASE Export
  BY <1>7, ExportKeeps
<1>8. CASE Killed
  BY <1>8, OnlyTheSession, FaultsAreBounded DEF Killed, SessionInv
<1>9. CASE UNCHANGED vars
  BY <1>9 DEF vars, Inductive, SessionInv, SessionShape, Whole
<1> QED  BY <1>1, <1>2, <1>3, <1>4, <1>5, <1>6, <1>7, <1>8, <1>9 DEF Next, Step

\* Every reachable state of a chain of sessions.
THEOREM Invariance == Spec => []Inductive
  BY InductiveInit, InductiveStep, PTL DEF Spec

(***************************************************************************)
(* The theorems.                                                           *)
(***************************************************************************)
\* The calls under a study's tag are that study's, whatever smoke tests of the
\* same model are run in between and whatever datasets are attached.
THEOREM TypeCorrect == Spec => []TypeOK
<1>1. Inductive => TypeOK
  BY DEF Inductive, TypeOK, Sound, Owned, SessionInv, SessionShape
<1> QED  BY <1>1, Invariance, PTL

\* For every chain of sessions: a call that was exported once is in every later
\* session and every later export.
THEOREM ExportsNest == Spec => []ChainNests
<1>1. Inductive => ChainNests
  BY DEF Inductive, ChainNests, SessionInv
<1> QED  BY <1>1, Invariance, PTL

\* Ledgers that are restored one by one belong together: an instrument call is
\* about the draft on record.
THEOREM InstrumentsFollowTheDrafts == Spec => []InstrumentsReadTheseDrafts
<1>1. Inductive => InstrumentsReadTheseDrafts
  BY DEF Inductive, Sound, AboutDrafts, InstrumentsReadTheseDrafts
<1> QED  BY <1>1, Invariance, PTL

\* Whatever builds the registry serves, every instrument call on record was
\* answered by the pinned one.
THEOREM InstrumentsStayPinned == Spec => []InstrumentsArePinned
<1>1. Inductive => InstrumentsArePinned
  BY DEF Inductive, Sound, OfThePins, InstrumentsArePinned
<1> QED  BY <1>1, Invariance, PTL

\* A run that leaves Kaggle has both tokens of its session and every call it
\* rests on, in the newest export of any later day.
THEOREM RunsStayGatedAndWhole == Spec => []RunsAreGatedAndWhole
<1>1. Inductive => RunsAreGatedAndWhole
  BY DEF Inductive, RunsAreGatedAndWhole, Whole
<1> QED  BY <1>1, Invariance, PTL
===============================================================================
