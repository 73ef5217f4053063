------------------------------- MODULE MCExamDay -------------------------------
(***************************************************************************)
(* Two devices, two HTTP threads, two teachers and a visitor; each         *)
(* workload is a mix of what they do.                                      *)
(***************************************************************************)
EXTENDS ExamDay, TLC

CONSTANTS d1, d2, t1, t2, c1, c2, c3

Work(f) == f @@ "failures" :> 1 @@ [k \in Kinds |-> 0]

MCWorkloads == {
  Work("request" :> 3 @@ "tick" :> 2),
  Work("request" :> 2 @@ "tick" :> 1 @@ "failures" :> 2),
  Work("request" :> 2 @@ "tick" :> 2 @@ "delete" :> 2),
  Work("request" :> 2 @@ "tick" :> 1 @@ "answers" :> 1 @@ "delete" :> 1),
  Work("request" :> 3 @@ "time" :> 2),
  Work("frame" :> 6),
  Work("frame" :> 4 @@ "tick" :> 2),
  Work("answers" :> 4 @@ "edit" :> 1 @@ "delete" :> 1) }

MCMaxEvents == "redis_down" :> 2 @@ [e \in Events |-> 1]

T(depth, texts) == [i \in DOMAIN texts |-> [text |-> texts[i], depth |-> depth]]
Q(t, k, w, p)   == [type |-> t, key |-> T(0, k), weight |-> w, partial |-> p]

\* Weights of 1, 1/2, 0 and -1/2.
MCPapers == {
  << Q("set", <<"A", "B">>, 2, TRUE), Q("single", <<"A">>, 1, FALSE) >>,
  << Q("matching", <<"A", "B">>, 2, TRUE), Q("set", <<"A", "B">>, 1, FALSE) >>,
  << Q("matching", <<"B", "A">>, 1, FALSE), Q("single", <<"B">>, 0, FALSE) >>,
  << Q("set", <<"A">>, 2, TRUE), Q("single", <<"A">>, -1, FALSE) >> }

S(texts) == [array |-> FALSE, tokens |-> T(0, texts)]

\* The answers "B,A", "C,C" and so on; "[\"A\",\"B\"]"; and ["B","A"].
InQuotes == [array |-> FALSE, tokens |-> T(2, <<"A", "B">>)]
InArray  == [array |-> TRUE, tokens |-> T(1, <<"B", "A">>)]

MCSheets == { << S(<<"B", "A">>), S(<<"A">>) >>, << S(<<"A">>), S(<<>>) >>,
              << S(<<"C", "C">>), S(<<"A", "B">>) >>, << InQuotes, S(<<"A">>) >>,
              << InArray, S(<<"B">>) >> }

MCTexts == {"A", "B", "C"}

Perms == Permutations({d1, d2}) \cup Permutations({t1, t2}) \cup Permutations({c1, c2})
===============================================================================
