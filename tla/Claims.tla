--------------------------------- MODULE Claims ---------------------------------
(***************************************************************************)
(* One explanation read by the instrument: an instance is attributed, an   *)
(* explanation is told (by B1's template, or by a language model, which    *)
(* may say anything), the extractor turns it into claims with or without   *)
(* its own model, and the claims are measured against the attribution.     *)
(***************************************************************************)
EXTENDS Layer1

CONSTANTS
  Attributions,  \* attributions of the vocabulary
  Texts,         \* what a language model may say
  RepliesTo(_),  \* what the extractor's model may reply to a text
  NameOf         \* how B1 names a feature

ASSUME ClaimsAssumption ==
  /\ \A a \in Attributions : IsAttribution(a)
  /\ Texts \subseteq Seq(STRING)
  /\ NameOf \in [Vocabulary -> Seq(STRING)]
  /\ \A f \in Vocabulary : [words |-> NameOf[f], canon |-> f] \in Range(Variants)
  /\ \A t \in Texts \cup {Rendered(a, NameOf) : a \in Attributions} :
       RepliesTo(t) \subseteq {Unparsed} \cup Seq(Item)
  /\ None \notin {"b1", "llm"}

VARIABLES
  attribution,
  narrator,  \* who told the explanation
  text,
  reply,     \* the extractor model's
  claims     \* the claim set, None until it is extracted

claimsVars == <<attribution, narrator, text, reply, claims>>

ClaimsInit ==
  /\ attribution \in Attributions
  /\ narrator = None /\ text = None /\ reply = None /\ claims = None

\* B1Template.generate
TellTemplate ==
  /\ narrator = None
  /\ narrator' = "b1"
  /\ text' = Rendered(attribution, NameOf)
  /\ UNCHANGED <<attribution, reply, claims>>

TellFreely ==
  /\ narrator = None
  /\ narrator' = "llm"
  /\ text' \in Texts
  /\ UNCHANGED <<attribution, reply, claims>>

\* RuleAssistedExtractor.extract without a client.
ExtractByRule ==
  /\ text # None /\ claims = None
  /\ claims' = Extract(text, None)
  /\ UNCHANGED <<attribution, narrator, text, reply>>

\* ... and with one.
ExtractByModel ==
  /\ text # None /\ claims = None
  /\ \E r \in RepliesTo(text) : reply' = r /\ claims' = Extract(text, r)
  /\ UNCHANGED <<attribution, narrator, text>>

ClaimsNext == TellTemplate \/ TellFreely \/ ExtractByRule \/ ExtractByModel

ClaimsSpec == ClaimsInit /\ [][ClaimsNext]_claimsVars

(***************************************************************************)
(* Properties.                                                             *)
(***************************************************************************)
Read == claims # None

ByRule == Read /\ LastLlmParsed(reply) # TRUE

\* What B1 told is read back as what B1 asserted, even without a live model:
\* its features, ranks and directions; every metric of it is perfect and the
\* erasure of what it cites is the erasure of what was attributed
\* (extractor.py:6-9, b1_template:3-5).
TemplateRoundTrips ==
  ByRule /\ narrator = "b1" =>
    LET told == FaithfulClaims(attribution)
        top == Top(attribution)
        IsOne(m) == m.num = m.den
    IN /\ Len(claims) = Len(told)
       /\ \A i \in DOMAIN told :
            /\ claims[i].feature = told[i].feature /\ claims[i].rank = told[i].rank
            /\ claims[i].direction = told[i].direction
       /\ IsOne(MentionPrecision(claims, attribution))
       /\ IsOne(MentionRecall(claims, attribution))
       /\ IsOne(DsaAsserted(claims, attribution))
       /\ IsOne(Arc(claims, attribution))
       /\ \A k \in DOMAIN top :
            Cited(claims, Vocabulary, k) = FeaturesOf(SubSeq(top, 1, k))

\* What a later sentence says does not change how an earlier one was read
\* (extractor.py:264-272): the claims of the text up to a sentence's end are the
\* first claims of the text.
SentencesAreLocal ==
  ByRule =>
    \A p \in {q \in DOMAIN text : text[q] = Stop} :
      IsPrefix(RuleAssisted(SubSeq(text, 1, p)), claims)

Silent ==
  IF LastLlmParsed(reply) = TRUE
  THEN \A i \in DOMAIN reply : reply[i].direction \notin {Plus, Minus}
  ELSE \A i \in DOMAIN text : text[i] \notin DOMAIN Valenced \cup DOMAIN Signed \cup Transparent

\* An explanation that gives no direction is neither credited nor charged with
\* one: nothing counts as asserted, no sign agrees, and dsa_asserted is
\* undefined, so that the gated mean drops the instance (extractor.py:318-326,
\* metrics.py:106-112).
SilenceIsNotScored ==
  Read /\ Silent =>
    /\ DirectionAssertionRate(claims, attribution).num = 0
    /\ Dsa(claims, attribution).num = 0
    /\ DsaAsserted(claims, attribution).den = 0
===============================================================================
