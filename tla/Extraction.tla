------------------------------- MODULE Extraction -------------------------------
(***************************************************************************)
(* The claim extractor (extraction/extractor.py) and the claims themselves *)
(* (framework/schemas.py).                                                 *)
(*                                                                         *)
(* A text is a sequence of words.  A feature's name is a sequence of words *)
(* too, since what matters of names is that one may occur inside another;  *)
(* one word stands for each kind of direction cue.  A reply is Unparsed or *)
(* the items of its JSON array.                                            *)
(***************************************************************************)
EXTENDS Integers, Sequences, SequencesExt

CONSTANTS
  Variants,  \* the name and the aliases of every feature, as [words, canon]
  Unparsed,  \* a reply _parse_json returns None for
  None

Vocabulary == {Variants[i].canon : i \in DOMAIN Variants}

ASSUME ExtractionAssumption ==
  /\ Variants \in Seq([words : Seq(STRING), canon : Vocabulary])
  /\ \A i \in DOMAIN Variants : Len(Variants[i].words) > 0

\* The elements of S in the order of the pairs in before: r - 1 of them come
\* before the r-th.
InOrder(S, before) ==
  LET earlier == [x \in S |-> Cardinality({y \in S : <<y, x>> \in before})]
  IN [r \in 1..Cardinality(S) |-> CHOOSE x \in S : earlier[x] = r - 1]

\* sorted(..., reverse=True): equal keys stay in the order they had.
LargestFirst(key) ==
  LET S == DOMAIN key
  IN InOrder(S, {p \in S \X S :
       key[p[1]] > key[p[2]] \/ (key[p[1]] = key[p[2]] /\ p[1] < p[2])})

(***************************************************************************)
(* Cues.                                                                   *)
(***************************************************************************)
Plus == "+"
Minus == "-"

\* _POS_WORDS, _NEG_WORDS
Valenced == [increases |-> Plus, decreases |-> Minus]
\* _TRANSPARENT_WORDS
Transparent == {"adds"}
\* _NUM_AFTER_EQ and _NUM_SIGNED: only an explicit sign counts, so that a value
\* ("= 1.0") is no cue.
AfterEq == [w \in {"=+1", "=-1"} |-> IF w = "=+1" THEN Plus ELSE Minus]
Signed == [w \in {"=+1", "=-1", "+1", "-1"} |-> IF w \in {"=+1", "+1"} THEN Plus ELSE Minus]
\* _SENT_END
Stop == "."

\* No name has a sentence's end in it or ends with a direction, and none is of
\* two features.
ASSUME NamesAssumption ==
  /\ \A i \in DOMAIN Variants : /\ Stop \notin Range(Variants[i].words)
                                /\ Last(Variants[i].words) \notin DOMAIN Valenced
  /\ \A i, j \in DOMAIN Variants :
       Variants[i].words = Variants[j].words => Variants[i].canon = Variants[j].canon

(***************************************************************************)
(* Claims.                                                                 *)
(***************************************************************************)
\* ClaimTuple; a claim without a rank or a magnitude has None.
MakeClaim(feature, direction, rank, magnitude, evidence) ==
  [feature |-> feature, direction |-> direction, rank |-> rank,
   magnitude |-> magnitude, evidence |-> evidence]

\* What the extractor says of a feature.
Extracted ==
  [feature : Vocabulary, direction : {Plus, Minus, None}, rank : Nat \cup {None},
   magnitude : {None}, evidence : {"word", "number", "connective", "default", "llm"}]

\* None is no value of a claim, and no list of claims.
ASSUME NoneAssumption ==
  None \notin Nat \cup BOOLEAN \cup {Plus, Minus, "default"} \cup Seq(Extracted)

\* What __post_init__ does not raise on.
ClaimAccepted(c) ==
  /\ c.rank # None => c.rank >= 1
  /\ (c.direction = None) <=> (c.evidence = "default")

(***************************************************************************)
(* _rule_assisted: where the features are.                                 *)
(***************************************************************************)
Occurrences(text, words) ==
  {p \in 1..(Len(text) - Len(words) + 1) :
     SubSeq(text, p, p + Len(words) - 1) = words}

Span(p, words) == p..(p + Len(words) - 1)

\* Bug: in the order of the vocabulary, so that a short name is found inside a
\* longer one.
InVocabularyOrder == Variants

LongestFirst ==
  LET order == LargestFirst([i \in DOMAIN Variants |-> Len(Variants[i].words)])
  IN [r \in DOMAIN Variants |-> Variants[order[r]]]

\* One variant takes its first occurrence that is not consumed, and no other.
Consume(text, found, variant) ==
  LET free == {p \in Occurrences(text, variant.words) :
                 Span(p, variant.words) \cap found.consumed = {}}
      span == Span(Min(free), variant.words)
      known == {m \in found.mentions : m.feature = variant.canon}
  IN IF free = {} THEN found
     ELSE [consumed |-> found.consumed \cup span,
           mentions |->
             IF \E m \in known : m.start < Min(span) THEN found.mentions
             ELSE (found.mentions \ known)
                    \cup {[feature |-> variant.canon, start |-> Min(span), end |-> Max(span)]}]

\* What the first k variants find.
Found(text, k) ==
  LET found[n \in 0..Len(LongestFirst)] ==
        IF n = 0 THEN [consumed |-> {}, mentions |-> {}]
        ELSE Consume(text, found[n - 1], LongestFirst[n])
  IN found[k]

\* The mentions, one for each feature, in the order of the text.
Mentions(text) ==
  LET found == Found(text, Len(LongestFirst)).mentions
  IN InOrder(found, {p \in found \X found : p[1].start < p[2].start})

(***************************************************************************)
(* ... and what is said of them.                                           *)
(***************************************************************************)
\* Bug: the window runs on to the next sentence.
WindowToNextMention(text, mentions, i) ==
  SubSeq(text, mentions[i].end + 1,
         IF i < Len(mentions) THEN mentions[i + 1].start - 1 ELSE Len(text))

\* The claim window ends at the next mention or the end of the sentence (the
\* 300-character cap is left out).
Window(text, mentions, i) ==
  LET limit == IF i < Len(mentions) THEN mentions[i + 1].start - 1 ELSE Len(text)
      stops == {p \in (mentions[i].end + 1)..limit : text[p] = Stop}
  IN SubSeq(text, mentions[i].end + 1, IF stops = {} THEN limit ELSE Min(stops) - 1)

FirstOf(window, cues) == Min({p \in DOMAIN window : window[p] \in cues})

Holds(window, cues) == \E p \in DOMAIN window : window[p] \in cues

\* Bug: the default is a direction (the extractor before 2.0.0).
AssertByDefault(window) ==
  IF Holds(window, DOMAIN Valenced)
  THEN <<Valenced[window[FirstOf(window, DOMAIN Valenced)]], "word">>
  ELSE <<Plus, "word">>

\* _direction_of
DirectionOf(window) ==
  IF Holds(window, DOMAIN Valenced)
  THEN <<Valenced[window[FirstOf(window, DOMAIN Valenced)]], "word">>
  ELSE IF Holds(window, DOMAIN AfterEq)
  THEN <<AfterEq[window[FirstOf(window, DOMAIN AfterEq)]], "number">>
  ELSE IF Holds(window, DOMAIN Signed)
  THEN <<Signed[window[FirstOf(window, DOMAIN Signed)]], "number">>
  ELSE IF Holds(window, Transparent) THEN <<Plus, "connective">>
  ELSE <<None, "default">>

RuleAssisted(text) ==
  LET mentions == Mentions(text)
  IN [i \in DOMAIN mentions |->
        LET said == DirectionOf(Window(text, mentions, i))
        IN MakeClaim(mentions[i].feature, said[1], i, None, said[2])]

(***************************************************************************)
(* _parse_json                                                             *)
(***************************************************************************)
\* An item of a reply; what else a model may put there is no claim either.
Item == [words : Seq(STRING), direction : STRING, rank : Int \cup {None}]

Canonical(words) ==
  LET matching == {i \in DOMAIN LongestFirst : LongestFirst[i].words = words}
  IN IF matching = {} THEN None ELSE LongestFirst[Min(matching)].canon

FromItem(item) ==
  MakeClaim(Canonical(item.words),
            IF item.direction = "unclear" THEN None ELSE item.direction,
            item.rank, None,
            IF item.direction = "unclear" THEN "default" ELSE "llm")

\* Items that name no feature, or that ClaimTuple refuses, are skipped.
ItemAccepted(item) ==
  /\ Canonical(item.words) # None
  /\ item.direction \in {Plus, Minus, "unclear"}
  /\ ClaimAccepted(FromItem(item))

ParseJson(reply) ==
  LET accepted == {i \in DOMAIN reply : ItemAccepted(reply[i])}
      order == InOrder(accepted, {p \in accepted \X accepted : p[1] < p[2]})
  IN [i \in DOMAIN order |-> FromItem(reply[order[i]])]

\* extract: a reply of None stands for rule-only mode.
Extract(text, reply) ==
  IF reply \in {None, Unparsed} THEN RuleAssisted(text) ELSE ParseJson(reply)

LastLlmParsed(reply) ==
  IF reply = None THEN None ELSE reply # Unparsed
===============================================================================
