-------------------------------- MODULE Scoring --------------------------------
(***************************************************************************)
(* middleware/scoring.cpp: the points of an answer and of a sheet, and     *)
(* what the characters of JSON do to an answer on its way.                 *)
(*                                                                         *)
(* A question has the tokens of its key, an answer those of the student:   *)
(* options, or pairs for matching.  A token is its text and how deep it is *)
(* in quotation marks: 0 for a bare one, 1 for "A", 2 for \"A\", 3 for     *)
(* \\\"A\\\", and so on.                                                   *)
(*                                                                         *)
(* Weights are doubles of either sign.  They are counted in units of       *)
(* 1/Unit, which makes the finitely many weights of a paper integers, and  *)
(* points in units of 1/(Unit * Scale), where Scale is a multiple of the   *)
(* length of every key, which makes the portions of a key integers.        *)
(***************************************************************************)
EXTENDS Integers, FiniteSets, Sequences, Functions

CONSTANTS Texts, MaxTokens, Scale, Unit

ASSUME ScoringAssumption ==
  /\ MaxTokens \in Nat /\ Scale \in Nat \ {0} /\ Unit \in Nat \ {0}
  /\ \A n \in 1..MaxTokens : Scale % n = 0

Token      == [text : Texts, depth : Nat]
TokenLists == {s \in Seq(Token) : Len(s) <= MaxTokens}

\* The tokeniser takes quotation marks and backslashes off the strings of a key,
\* and JSON has no backslash elsewhere: every token of a key is bare.
Question == [type : {"set", "matching", "single"}, weight : Int, partial : BOOLEAN,
             key : {s \in TokenLists : \A i \in DOMAIN s : s[i].depth = 0}]

-----------------------------------------------------------------------------
\* json_escape, and json_unescape, on every token of an answer.
Escaped(s) ==
  [i \in DOMAIN s |-> [s[i] EXCEPT !.depth = IF @ = 0 THEN 0 ELSE @ + 1]]
Unescaped(s) ==
  [i \in DOMAIN s |-> [s[i] EXCEPT !.depth = IF @ > 1 THEN @ - 1 ELSE @]]

\* What parse_set_tokens and parse_object_pairs make of an answer: marks that no
\* backslash precedes are taken off, any other is part of the token.
Read(s) == [i \in DOMAIN s |-> [s[i] EXCEPT !.depth = IF @ = 1 THEN 0 ELSE @]]

Has(s, x) == \E i \in DOMAIN s : s[i] = x

\* How many tokens of s are in r, and are not.
Hits(s, r)   == Cardinality({i \in DOMAIN s : Has(r, s[i])})
Misses(s, r) == Len(s) - Hits(s, r)

\* std::sort on both and ==.
SameBag(s, r) ==
  \A x \in Range(s) \cup Range(r) :
    Cardinality({i \in DOMAIN s : s[i] = x}) = Cardinality({i \in DOMAIN r : r[i] = x})

\* sets_equal_obj: as long, and with every pair of the key.
SamePairs(key, s) == Len(s) = Len(key) /\ Hits(key, s) = Len(key)

\* The portion of a question that is partially scored.
Portion(q, a) ==
  IF q.key = <<>> THEN 0
  ELSE IF q.type = "matching" THEN (Scale * Hits(q.key, a)) \div Len(q.key)
  ELSE LET net == Hits(a, q.key) - Misses(a, q.key) IN
       IF net < 0 THEN 0 ELSE (Scale * net) \div Len(q.key)

Correct(q, a) ==
  CASE q.type = "set"      -> SameBag(a, q.key)
    [] q.type = "matching" -> SamePairs(q.key, a)
    [] q.type = "single"   -> q.key # <<>> /\ a = <<q.key[1]>>

\* evaluate_question_detail.
Earned(q, a) ==
  LET s == IF q.type = "single" THEN a ELSE Read(a) IN
  IF s = <<>> THEN 0
  ELSE IF q.partial /\ q.type # "single" THEN q.weight * Portion(q, s)
  ELSE IF Correct(q, s) THEN q.weight * Scale ELSE 0

Points(paper, sheet) == SumFunction([i \in DOMAIN paper |-> Earned(paper[i], sheet[i])])
Total(paper)         == SumFunction([i \in DOMAIN paper |-> paper[i].weight])

\* score_submission: got / total; without any weight, 0.
Score(paper, sheet) ==
  IF Total(paper) = 0 THEN [got |-> 0, total |-> 1]
  ELSE [got |-> Points(paper, sheet), total |-> Scale * Total(paper)]

\* No token twice.
Distinct(s) == \A i, j \in DOMAIN s : s[i] = s[j] => i = j
===============================================================================
