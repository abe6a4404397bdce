-------------------------- MODULE BucketSelectors --------------------------
(***************************************************************************)
(* buckets.py: bucket ids, the cube of a vocabulary, and selectors.        *)
(*                                                                         *)
(* A bucket expression is the sequence of its segments: <<name, class>>,   *)
(* or <<text>> for one without "=".  A vocabulary is the sequence of its   *)
(* dimensions, each <<name, classes>>.  An operator that refuses returns   *)
(* Malformed.                                                              *)
(***************************************************************************)
EXTENDS Naturals, SequencesExt

Malformed == <<"malformed">>
Star == "*"

\* _parse_pairs: segments with a name, each name once; a function from names.
Parses(text) ==
  /\ text # <<>>
  /\ \A i \in DOMAIN text : Len(text[i]) = 2
  /\ \A i, j \in DOMAIN text : text[i][1] = text[j][1] => i = j
Assignment(text) ==
  [n \in {s[1] : s \in ToSet(text)} |-> (CHOOSE s \in ToSet(text) : s[1] = n)[2]]

NamesOfDims(vocab) == {d[1] : d \in ToSet(vocab)}

\* The validators of BucketVocabulary, BucketDimension and BucketClass.
WellFormedVocabulary(vocab) ==
  /\ vocab # <<>>
  /\ \A i, j \in DOMAIN vocab : vocab[i][1] = vocab[j][1] => i = j
  /\ \A i \in DOMAIN vocab : vocab[i][2] # {} /\ Star \notin vocab[i][2]

\* bucket_id: every dimension assigned to one of its classes, and nothing else.
BucketId(vocab, asg) ==
  IF DOMAIN asg = NamesOfDims(vocab) /\ \A d \in ToSet(vocab) : asg[d[1]] \in d[2]
  THEN [i \in DOMAIN vocab |-> <<vocab[i][1], asg[vocab[i][1]]>>]
  ELSE Malformed

\* parse_bucket_id, as the id it stands for.
Canonical(vocab, text) == IF Parses(text) THEN BucketId(vocab, Assignment(text)) ELSE Malformed

\* BucketSelector.parse: the pattern, in the vocabulary's order.
ParseSelector(vocab, text) ==
  IF /\ Parses(text)
     /\ DOMAIN Assignment(text) = NamesOfDims(vocab)
     /\ \A d \in ToSet(vocab) : Assignment(text)[d[1]] \in d[2] \cup {Star}
  THEN [i \in DOMAIN vocab |-> <<vocab[i][1], Assignment(text)[vocab[i][1]]>>]
  ELSE Malformed

\* BucketSelector.matches.
Matches(pattern, text) ==
  \A i \in DOMAIN pattern :
    /\ pattern[i][1] \in DOMAIN Assignment(text)
    /\ pattern[i][2] = Star \/ Assignment(text)[pattern[i][1]] = pattern[i][2]

\* all_bucket_ids: the product of the dimensions.
Cube(vocab) ==
  {[i \in DOMAIN vocab |-> <<vocab[i][1], c[i]>>] :
     c \in {f \in [DOMAIN vocab -> UNION {d[2] : d \in ToSet(vocab)}] :
              \A i \in DOMAIN vocab : f[i] \in vocab[i][2]}}

-----------------------------------------------------------------------------
\* The buckets a selector's text claims, stated over the cube: those that agree
\* with every segment that names a class.
Claimed(vocab, text) ==
  {b \in Cube(vocab) : \A s \in ToSet(text) :
     s[2] = Star \/ \E t \in ToSet(b) : t[1] = s[1] /\ t[2] = s[2]}
=============================================================================
