------------------------------- MODULE Annotator -------------------------------
(***************************************************************************)
(* The blind-annotation page an audit batch ships with (annotator.html,    *)
(* HTML in tools/build_audit_batch.py): one browser profile, whose storage *)
(* every annotator of the batch shares, and the exports they take from it. *)
(*                                                                         *)
(* A judgment remembers the label and the name in the box when it was made *)
(* ("under"); only the label is the page's.  Notes, hedging marks and the  *)
(* current item are saved with the judgments and left out; a click that    *)
(* only moves about saves the page all the same.                           *)
(***************************************************************************)
EXTENDS Naturals, FiniteSets

CONSTANTS
  Names,        \* what people type into the name box
  Unnamed,      \* the empty box, and the bucket of unnamed work
  Items,
  Candidates,   \* the features listed for each item
  Features,     \* the vocabulary
  LabelChoices, \* the labels people choose from
  MaxExports,   \* bound on the exported files
  NoBucket      \* a name without one

Boxes == Names \cup {Unnamed}
PageCells == Items \X Features
Passes == UNION {[D -> [label: LabelChoices, under: Boxes]] : D \in SUBSET PageCells}
States == [name: Boxes, judged: Passes, added: SUBSET PageCells]

ASSUME AnnotatorAssumption ==
  /\ Unnamed \notin Names
  /\ \A i \in Items : Candidates[i] \subseteq Features
  /\ MaxExports \in Nat
  /\ NoBucket \notin States

VARIABLES
  storage,   \* localStorage: the bucket of each name, or NoBucket
  active,    \* ACTIVE: the name of the last saved page
  page,      \* the open page's state
  exports    \* the exported files

pageVars == <<storage, active, page, exports>>

NoJudgments == [c \in {} |-> NoBucket]
Blank(name) == [name |-> name, judged |-> NoJudgments, added |-> {}]

\* load: the bucket of a name, or a blank state; it is signed with the name.
Loaded(name) == IF storage[name] = NoBucket THEN Blank(name)
                ELSE [storage[name] EXCEPT !.name = name]

\* save: the page's state to the bucket of its name, which becomes ACTIVE.
Save(state, shelf) ==
  /\ page' = state
  /\ storage' = [shelf EXCEPT ![state.name] = state]
  /\ active' = state.name

\* featuresOf.
Listed(state, i) == Candidates[i] \cup {f \in Features : <<i, f>> \in state.added}

\* The page is opened again: it shows the last saved page's bucket.
Open ==
  /\ page' = Loaded(active)
  /\ UNCHANGED <<storage, active, exports>>

\* An item is opened: render, and save.
Go ==
  /\ Save(page, storage)
  /\ UNCHANGED exports

Judged(state, i, f, l) ==
  LET made == [label |-> l, under |-> state.name]
  IN [state EXCEPT !.judged = [c \in DOMAIN @ \cup {<<i, f>>} |->
                                 IF c = <<i, f>> THEN made ELSE @[c]]]

\* A label button or a digit key; a second choice replaces the first.
Judge(i, f, l) ==
  /\ f \in Listed(page, i)
  /\ Save(Judged(page, i, f, l), storage)
  /\ UNCHANGED exports

\* addFeature: a feature of the vocabulary that is not listed yet.
AddFeature(i, f) ==
  /\ f \in Features \ Listed(page, i)
  /\ Save([page EXCEPT !.added = @ \cup {<<i, f>>}], storage)
  /\ UNCHANGED exports

\* Bug: the page's work goes along with every new name.
ChangeNameCarrying(name) ==
  /\ name # page.name
  /\ IF storage[name] = NoBucket /\ DOMAIN page.judged # {}
     THEN Save([page EXCEPT !.name = name], [storage EXCEPT ![page.name] = NoBucket])
     ELSE Save(Loaded(name), storage)
  /\ UNCHANGED exports

\* Bug: work begun before a name was typed replaces that name's bucket.
ChangeNameOver(name) ==
  /\ name # page.name
  /\ IF page.name = Unnamed /\ DOMAIN page.judged # {}
     THEN Save([page EXCEPT !.name = name], [storage EXCEPT ![Unnamed] = NoBucket])
     ELSE Save(Loaded(name), storage)
  /\ UNCHANGED exports

\* Bug: the page that takes over unnamed work is not saved.
ChangeNameUnsaved(name) ==
  /\ name # page.name
  /\ IF storage[name] = NoBucket /\ page.name = Unnamed /\ DOMAIN page.judged # {}
     THEN /\ page' = [page EXCEPT !.name = name]
          /\ storage' = [storage EXCEPT ![Unnamed] = NoBucket]
          /\ UNCHANGED active
     ELSE Save(Loaded(name), storage)
  /\ UNCHANGED exports

\* The name box changes: unnamed work goes along with a name that has no bucket
\* yet; otherwise the page turns to the bucket of the name.
ChangeName(name) ==
  /\ name # page.name
  /\ IF storage[name] = NoBucket /\ page.name = Unnamed /\ DOMAIN page.judged # {}
     THEN Save([page EXCEPT !.name = name], [storage EXCEPT ![Unnamed] = NoBucket])
     ELSE Save(Loaded(name), storage)
  /\ UNCHANGED exports

\* The export is signed; features without a judgment get no row.
Export ==
  /\ page.name # Unnamed
  /\ Cardinality(exports) < MaxExports
  /\ exports' = exports \cup {[annotator |-> page.name, rows |-> page.judged]}
  /\ UNCHANGED <<storage, active, page>>

PageInit ==
  /\ storage = [b \in Boxes |-> NoBucket] /\ active = Unnamed
  /\ page = Blank(Unnamed)
  /\ exports = {}

PageNext ==
  \/ Open
  \/ Go
  \/ \E i \in Items, f \in Features : (\E l \in LabelChoices : Judge(i, f, l)) \/ AddFeature(i, f)
  \/ \E name \in Boxes : ChangeName(name)
  \/ Export

PageSpec == PageInit /\ [][PageNext]_pageVars

(***************************************************************************)
(* Properties.                                                             *)
(***************************************************************************)
Buckets == {b \in Boxes : storage[b] # NoBucket}

\* Names are known, a bucket is signed with its own name, and every judged
\* feature is listed, so that the export finds it.
PageTypeOK ==
  /\ active \in Boxes /\ page \in States
  /\ storage \in [Boxes -> States \cup {NoBucket}]
  /\ \A b \in Buckets : storage[b].name = b
  /\ \A c \in DOMAIN page.judged : c[2] \in Listed(page, c[1])

\* What the page shows is what a reload shows: nothing on it is unsaved, after
\* any sequence of names and judgments.
PageIsSaved == page = Loaded(active) /\ page.name = active

\* "Passes are kept separate" (build_audit_batch.py:551): a judgment made under
\* a name is never in another name's pass, nor in an export signed by another.
NamedWorkStaysPut ==
  /\ \A b \in Buckets : \A c \in DOMAIN storage[b].judged :
       storage[b].judged[c].under \in {b, Unnamed}
  /\ \A e \in exports : \A c \in DOMAIN e.rows : e.rows[c].under \in {e.annotator, Unnamed}

Held(state, c) == state # NoBucket /\ c \in DOMAIN state.judged

\* "Carry that work over, do not lose it" (build_audit_batch.py:528): a saved
\* judgment is only ever replaced by a new judgment of the same cell; a change
\* of the name box leaves it in its bucket or takes it to the typed name.
WorkIsKept ==
  [][\A b \in Buckets : \A c \in DOMAIN storage[b].judged :
       \/ /\ Held(storage'[b], c)
          /\ page.name # page'.name => storage'[b].judged[c] = storage[b].judged[c]
       \/ /\ b = Unnamed /\ page'.name # Unnamed
          /\ Held(storage'[page'.name], c)
          /\ storage'[page'.name].judged[c] = storage[b].judged[c]]_pageVars
===============================================================================
