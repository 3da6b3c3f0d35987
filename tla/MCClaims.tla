------------------------------- MODULE MCClaims -------------------------------
(* TLC instances of Claims.                                                *)
EXTENDS Claims

\* Two features of which one's name occurs in the other's, and a third that is
\* also known by an alias.
SmallNames == [mean |-> <<"packet", "mean">>, fwd |-> <<"fwd", "packet", "mean">>,
               idle |-> <<"idle">>]

SmallVariants ==
  <<[words |-> SmallNames["mean"], canon |-> "mean"],
    [words |-> SmallNames["fwd"], canon |-> "fwd"],
    [words |-> SmallNames["idle"], canon |-> "idle"],
    [words |-> <<"quiet", "time">>, canon |-> "idle"]>>

SmallAttributions ==
  {<<[feature |-> "mean", value |-> a], [feature |-> "fwd", value |-> b],
     [feature |-> "idle", value |-> c]>> :
     a \in {-2, 0, 1}, b \in {-1, 2}, c \in {1}}

Phrases ==
  {SmallNames["mean"], SmallNames["fwd"], <<"quiet", "time">>, <<"idle">>,
   <<"increases">>, <<"decreases">>, <<"adds">>, <<"=-1">>, <<"+1">>, <<Stop>>}

\* Every text of MaxPhrases phrases.
MaxPhrases == 4
SmallTexts == {FlattenSeq(t) : t \in [1..MaxPhrases -> Phrases]}

Items ==
  [words : {SmallNames["mean"], SmallNames["fwd"], <<"ports">>},
   direction : {Plus, Minus, "unclear", "both"}, rank : {None, 0, 1, 2}]

\* A reply that parses does not depend on the text: one text gets them all.
SmallReplies(t) ==
  IF t = FlattenSeq([i \in 1..MaxPhrases |-> <<"idle">>])
  THEN {Unparsed, <<>>} \cup {<<i>> : i \in Items} \cup {<<i, j>> : i \in Items, j \in Items}
  ELSE {Unparsed}
===============================================================================
