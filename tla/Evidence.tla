------------------------------ MODULE Evidence ------------------------------
(***************************************************************************)
(* Claims that disagree (evidence/contradiction.py).                       *)
(*                                                                         *)
(* A claim has a `subject` entity, a `predicate`, the words of the subject *)
(* (`about`) and its object: the words it `says` and a quantity.  A word   *)
(* is its place in a `lexicon` that is sorted by spelling and says of each *)
(* word whether it has a digit, is a stopword, negates, which word it      *)
(* folds to, and the antonyms found inside it.                             *)
(***************************************************************************)
EXTENDS Traversals

(* Only units of one dimension are converted.                              *)
Units == [milliseconds |-> <<"time", 1>>, seconds |-> <<"time", 1000>>, minutes |-> <<"time", 60000>>,
          bytes |-> <<"size", 1>>, kb |-> <<"size", 1000>>]
Antonyms == {<<"true", "false">>, <<"yes", "no">>, <<"open", "closed">>, <<"supported", "unsupported">>, <<"safe", "unsafe">>,
             <<"enabled", "disabled">>, <<"verified", "unverified">>, <<"public", "private">>}
NoQuantity == [value |-> -1, unit |-> ""]
HasQuantity(c) == c.quantity # NoQuantity
Dimension(q) == IF q.unit \in DOMAIN Units THEN Units[q.unit][1] ELSE ""
Base(q) == IF q.unit \in DOMAIN Units THEN q.value * Units[q.unit][2] ELSE q.value
NumbersDiffer(p, q) ==
    LET united == Dimension(p) # "" /\ Dimension(q) # ""
    IN  IF united THEN Dimension(p) = Dimension(q) /\ Base(p) # Base(q) ELSE p.value # q.value
Negates(lex, c) == \E w \in c.says : lex[w].negates
Found(lex, c) == UNION {lex[w].parts : w \in c.says}
Opposed(lex, a, b) ==
    \E p \in Antonyms : \/ p[1] \in Found(lex, a) /\ p[2] \in Found(lex, b)
                        \/ p[2] \in Found(lex, a) /\ p[1] \in Found(lex, b)
(* In tenths, the first kind that applies.                                 *)
CompareClaims(lex, a, b) ==
    IF \/ a.says = {} /\ ~HasQuantity(a)
       \/ b.says = {} /\ ~HasQuantity(b)
       \/ <<a.says, a.quantity>> = <<b.says, b.quantity>> THEN 0
    ELSE IF HasQuantity(a) /\ HasQuantity(b) /\ NumbersDiffer(a.quantity, b.quantity) THEN 7
    ELSE IF Negates(lex, a) # Negates(lex, b) THEN 5
    ELSE IF Opposed(lex, a, b) THEN 8 ELSE 0

(* What a claim is about: the words of its subject, and those of its       *)
(* object that are not the value in dispute.  Its identifiers are the      *)
(* words of the subject with a digit.                                      *)
Content(lex, S) == {lex[w].fold : w \in {x \in S : ~lex[x].stop}}
Topic(lex, c) == Content(lex, c.about) \cup Content(lex, {w \in c.says : ~lex[w].digit})
IdentifiersOf(lex, c) == {lex[w].fold : w \in {x \in c.about : lex[x].digit}}
TopicsPair(s, t) == s \subseteq t \/ t \subseteq s

(* Route one: the same subject and predicate, bucket by bucket.            *)
Bucketed(claims) ==
    LET Key(i) == <<claims[i].subject, claims[i].predicate>>
        Ahead(k, l) == \E n \in 1..4 : k[n] < l[n] /\ \A m \in 1..(n - 1) : k[m] = l[m]
    IN  InOrderOf({q \in (DOMAIN claims) \X (DOMAIN claims) : q[1] < q[2] /\ Key(q[1]) = Key(q[2])},
                  LAMBDA p, q : Ahead(Key(p[1]) \o p, Key(q[1]) \o q))
(* Route two: candidates are read off an index at the rarest word of each  *)
(* topic, among the claims with the same identifiers, each pair once.      *)
Rarest(postings, topic) ==
    CHOOSE w \in topic : \A x \in topic : \/ Cardinality(postings[w]) < Cardinality(postings[x])
                                          \/ (Cardinality(postings[w]) = Cardinality(postings[x]) /\ w <= x)
Seeds_OneWay(postings, topics, i) ==
    IF topics[i] = {} THEN {} ELSE {j \in postings[Rarest(postings, topics[i])] : j > i}
Seeds(postings, topics, i) ==
    IF topics[i] = {} THEN {} ELSE postings[Rarest(postings, topics[i])] \ {i}
Postings(topics, ids, i) ==
    Table([w \in UNION Range(topics) |-> {j \in DOMAIN ids : ids[j] = ids[i] /\ w \in topics[j]}])
VisitOrder(ids) ==
    LET FirstOf(i) == Min({j \in DOMAIN ids : ids[j] = ids[i]})
    IN  InOrderOf(DOMAIN ids, LAMBDA i, j : FirstOf(i) < FirstOf(j) \/ (FirstOf(i) = FirstOf(j) /\ i < j))
PairsSeen(topics, ids) ==
    FoldLeft(LAMBDA done, i :
                 FoldLeft(LAMBDA d, j : IF \E k \in DOMAIN d : {d[k][1], d[k][2]} = {i, j} THEN d
                                        ELSE Append(d, <<Min({i, j}), Max({i, j})>>),
                          done, InOrderOf(Seeds(Postings(topics, ids, i), topics, i), <)),
             <<>>, VisitOrder(ids))
Candidates(lex, claims) ==
    PairsSeen(Table([i \in DOMAIN claims |-> Topic(lex, claims[i])]),
              Table([i \in DOMAIN claims |-> IdentifiersOf(lex, claims[i])]))

(* One budget of comparisons for both routes and a bound on the answer;    *)
(* each of the three cuts is reported.                                     *)
Turned(claims, p) == IF claims[p[1]].rank <= claims[p[2]].rank THEN p ELSE <<p[2], p[1]>>
Nested(lex, claims, tried) ==
    {p \in ToSet(tried) : TopicsPair(Topic(lex, claims[p[1]]), Topic(lex, claims[p[2]]))}
Disagreeing(lex, claims, pairs) == {p \in pairs : CompareClaims(lex, claims[p[1]], claims[p[2]]) >= 5}
(* By what the claims say, their identities last.                          *)
Ordered(claims, pairs) ==
    InOrderOf({Turned(claims, p) : p \in pairs},
              LAMBDA p, q : \/ claims[p[1]].rank < claims[q[1]].rank
                            \/ claims[p[1]].rank = claims[q[1]].rank /\ claims[p[2]].rank < claims[q[2]].rank)
Scanned(ordered, compared, cut, maxSignals) ==
    [signals |-> SubSeq(ordered, 1, Min({maxSignals, Len(ordered)})), comparisons |-> compared,
     truncated |-> cut \/ Len(ordered) > maxSignals]
ScannedWith(lex, claims, exact, others, examined, tried, maxSignals) ==
    Scanned(Ordered(claims, Disagreeing(lex, claims, ToSet(examined) \cup Nested(lex, claims, tried))),
            Len(examined) + Len(tried), Len(exact) > Len(examined) \/ Len(others) > Len(tried), maxSignals)
Upto(s, n) == SubSeq(s, 1, Min({n, Len(s)}))
ScanContradictions(lex, claims, maxComparisons, maxSignals) ==
    LET exact  == Bucketed(claims)
        others == Candidates(lex, claims)
    IN  ScannedWith(lex, claims, exact, others, Upto(exact, maxComparisons),
             Upto(others, Max({0, maxComparisons - Len(exact)})), maxSignals)
=============================================================================
