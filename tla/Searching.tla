----------------------------- MODULE Searching ------------------------------
(***************************************************************************)
(* Search (search/*.py): the keyword and full-text arms, identifiers of a  *)
(* query against qualified names, their fusion by reciprocal rank, the     *)
(* rerank, and one search over every registered repository.                *)
(*                                                                         *)
(* A store has `order`, the chunks as rows come; `relevance`, the order    *)
(* bm25 would give; `chunk`, for each its source, document path, line (0   *)
(* for none), `parts`, the tokens found inside its text, `words`, those    *)
(* that are whole words of it, and `lead`, those in the snippet; and       *)
(* `entity`, a sequence in the order of canonical names.                   *)
(***************************************************************************)
EXTENDS Traversals

First(s, k) == SubSeq(s, 1, Min({k, Len(s)}))
(* A stable sort by a score, the greatest first.                           *)
Ranking(s, Score(_)) ==
    LET Ahead(i, j) == Score(s[i]) > Score(s[j]) \/ (Score(s[i]) = Score(s[j]) /\ i < j)
        index == InOrderOf(DOMAIN s, Ahead)
    IN  [k \in DOMAIN s |-> s[index[k]]]

(* Every token must be inside the text; rows are over-fetched so that they *)
(* can be scored by what the snippet shows.  A source of 0 is no filter.   *)
Overfetch_Dropped(limit) == limit
Overfetch(limit) == 3 * limit
Lower(t) == CASE t = "AND" -> "and" [] t = "OR" -> "or" [] t = "NOT" -> "not" [] OTHER -> t
Shown(st, tokens, c) == Cardinality({i \in DOMAIN tokens : tokens[i] \in st.chunk[c].lead})
Keyword(st, query, limit, source) ==
    LET tokens == [i \in 1..Min({8, Len(query)}) |-> Lower(query[i])]
        Has(c) == /\ ToSet(tokens) \subseteq st.chunk[c].parts
                  /\ source \in {0, st.chunk[c].source}
        rows   == First(SelectSeq(st.order, Has), Overfetch(limit))
    IN  IF tokens = <<>> THEN <<>>
        ELSE First(Ranking(rows, LAMBDA c : Shown(st, tokens, c)), limit)

(* Any of the tokens, joined with OR; a token that is itself an operator   *)
(* of the match language makes the expression a syntax error.              *)
Operators == {"AND", "OR", "NOT"}
Refused(query) == ToSet(First(query, 12)) \cap Operators # {}
FullText(st, query, limit) ==
    LET any == ToSet(First(query, 12))
    IN  First(SelectSeq(st.relevance, LAMBDA c : st.chunk[c].words \cap any # {}), limit)

(* A name as written: components of a path, each one or more segments      *)
(* with dots between; a symbol behind a double colon; and whether there    *)
(* was any separator but the dot.  A segment is a sequence of words, so    *)
(* that every spelling of it is the same.  A path's last component loses   *)
(* its extension, a dotted name keeps every segment.                       *)
WithoutExtension(component) == IF Len(component) > 1 THEN Front(component) ELSE component
Segments(n) ==
    (IF n.separated /\ n.path # <<>>
     THEN FlattenSeq(Front(n.path)) \o WithoutExtension(Last(n.path))
     ELSE FlattenSeq(n.path)) \o n.symbol
(* Tokens of the query that look like identifiers, each form once.         *)
Identifiers(tokens, cap) ==
    First(FoldLeft(LAMBDA s, t : IF ~t.shaped \/ Segments(t) = <<>> \/ \E i \in DOMAIN s : Segments(s[i]) = Segments(t)
                                 THEN s ELSE Append(s, t), <<>>, tokens), cap)
Matches(id, name) ==
    LET q == Segments(id)
        c == Segments(name)
    IN  q # <<>> /\ \E start \in 0..(Len(c) - Len(q)) : SubSeq(c, start + 1, start + Len(q)) = q
(* What any of the names accounts for.                                     *)
Matched(ids, names) == {i \in DOMAIN ids : \E n \in names : Matches(ids[i], n)}

(* The LIKE pattern: the words in this order, with anything between.       *)
Words(n) == FlattenSeq(Segments(n))
RECURSIVE Interspersed(_, _)
Interspersed(w, text) ==
    \/ w = <<>>
    \/ \E i \in DOMAIN text : text[i] = w[1] /\ Interspersed(Tail(w), SubSeq(text, i + 1, Len(text)))
(* Two entities may share a place, or a name: the first by name has the    *)
(* place, the last row the name's position.                                *)
Positioned(st, S) == {e \in S : st.entity[e].line > 0}
At(st, S, path, line) ==
    LET here == {e \in S : st.entity[e].path = path /\ st.entity[e].line = line}
    IN  IF line = 0 \/ here = {} THEN {} ELSE {Min(here)}
Canonical(st, e) == Max({f \in Positioned(st, DOMAIN st.entity) : st.entity[f].name = st.entity[e].name})
IdentifierSearch(st, ids, limit) ==
    LET cap     == Max({1, Min({limit, 200})})
        Like(i) == SelectSeq([e \in DOMAIN st.entity |-> e],
                             LAMBDA e : st.entity[e].line > 0 /\ Interspersed(Words(ids[i]), Words(st.entity[e].name)))
        Of(e)   == {i \in DOMAIN ids : Matches(ids[i], st.entity[e].name) /\ e \in ToSet(First(Like(i), cap))}
        named   == {Canonical(st, e) : e \in {f \in Positioned(st, DOMAIN st.entity) : Of(f) # {}}}
        Credit(e) == UNION {Of(f) : f \in {g \in Positioned(st, DOMAIN st.entity) : Canonical(st, g) = e}}
        hits    == UNION {{[chunk |-> c, entity |-> e, share |-> Cardinality(Credit(e))] :
                             e \in At(st, named, st.chunk[c].path, st.chunk[c].line)} : c \in DOMAIN st.chunk}
        Ahead(h, k) == \/ h.share > k.share \/ (h.share = k.share /\ h.entity < k.entity)
                       \/ (h.share = k.share /\ h.entity = k.entity /\ h.chunk < k.chunk)
    IN  First(InOrderOf(hits, Ahead), cap)

(* The names behind a chunk: of the hits, of the place, of the file.       *)
NamesOf(st, hits, c) ==
    {st.entity[h.entity].name : h \in {k \in ToSet(hits) : k.chunk = c}}
    \cup {st.entity[e].name : e \in At(st, DOMAIN st.entity, st.chunk[c].path, st.chunk[c].line)}
    \cup {st.chunk[c].path}

(* Fusion.  `vector` is the ranking of the embedding arm, empty when there *)
(* is no model; `rerank` a score for each chunk, or none.  Rank i is worth *)
(* 1 / (60 + i), counted in `Votes`-ths from 0.                            *)
Votes == 60 * 61 * 62 * 63
Vote(s, c) == LET at == SelectInSeq(s, LAMBDA x : x = c) IN IF at = 0 THEN 0 ELSE Votes \div (59 + at)
Signal(ids, matched) == IF ids = <<>> THEN 0 ELSE ((Votes \div 60) * matched) \div Len(ids)
ByScore(score) == InOrderOf(DOMAIN score, LAMBDA c, d : score[c] > score[d] \/ (score[c] = score[d] /\ c < d))
Fuse(arms, ids, share) ==
    LET score == [c \in DOMAIN share |-> Vote(arms[1], c) + Vote(arms[2], c) + Vote(arms[3], c) + Signal(ids, share[c])]
    IN  [arms |-> arms, ids |-> ids, score |-> score, order |-> ByScore(score), share |-> share]
FuseWithHits(st, arms, ids, hits) ==
    LET found == UNION {ToSet(arms[a]) : a \in DOMAIN arms} \cup {h.chunk : h \in ToSet(hits)}
    IN  Fuse(arms, ids, [c \in found |-> Cardinality(Matched(ids, NamesOf(st, hits, c)))])
Fused(st, q, limit, source, vector) ==
    LET ids  == Identifiers(q.names, 16)
        arms == <<Keyword(st, q.tokens, 2 * limit, source), FullText(st, q.tokens, 2 * limit), First(vector, 2 * limit)>>
    IN  FuseWithHits(st, arms, ids, IF ids = <<>> THEN <<>> ELSE IdentifierSearch(st, ids, 3 * limit))
(* The identifiers survive the rerank as places: all of them are worth the *)
(* mean gap between neighbouring scores of the window.                     *)
Reranked(f, limit, rerank) ==
    LET window == First(f.order, 3 * limit)
        n      == Len(window)
        scores == {rerank[c] : c \in ToSet(window)}
        \* all times (n - 1) and the number of identifiers
        Worth(c) == rerank[c] * Max({n - 1, 1}) * Max({Len(f.ids), 1})
                      + (IF n < 2 \/ f.ids = <<>> THEN 0 ELSE (Max(scores) - Min(scores)) * f.share[c])
    IN  InOrderOf(ToSet(window), LAMBDA c, d : Worth(c) > Worth(d) \/ (Worth(c) = Worth(d) /\ c < d))
          \o SubSeq(f.order, n + 1, Len(f.order))
Answered(f, limit, rerank) ==
    [error |-> FALSE, fused |-> f,
     results |-> First(IF rerank = <<>> \/ f.order = <<>> THEN f.order ELSE Reranked(f, limit, rerank), limit)]
Hybrid(st, q, limit, source, vector, rerank) ==
    IF Refused(q.tokens) THEN [error |-> TRUE, results |-> <<>>, fused |-> <<>>]
    ELSE Answered(Fused(st, q, limit, source, vector), limit, rerank)

(* Names and text that contain the query, of code only.                    *)
CodeSearch(st, token, limit) ==
    LET cap == Max({1, Min({limit, 100})})
    IN  [symbols |-> First(SelectSeq([e \in DOMAIN st.entity |-> e],
                                     LAMBDA e : token \in ToSet(Words(st.entity[e].name))), cap),
         chunks |-> First(SelectSeq(st.order, LAMBDA c : st.chunk[c].code /\ token \in st.chunk[c].parts), cap)]

(* Every registered repository in turn, by name; one that is gone, has no  *)
(* graph or cannot be read is reported and the others are searched.        *)
Opens(repo) == repo.state = "ok"
SearchRegistered(repos, query, limit, perRepo, maxRepos) ==
    LET considered == First(InOrderOf(DOMAIN repos, LAMBDA r, t : r < t), Max({1, maxRepos}))
        top    == Max({1, Min({limit, 200})})
        Hits(r) == IF Opens(repos[r]) THEN Keyword(repos[r].store, query, Max({1, Min({perRepo, 200})}), 0) ELSE <<>>
        tokens  == [i \in 1..Min({8, Len(query)}) |-> Lower(query[i])]
        all     == UNION {{[repo |-> r, chunk |-> c, score |-> Shown(repos[r].store, tokens, c)] :
                              c \in ToSet(Hits(r))} : r \in ToSet(considered)}
        Ahead(x, y) == \/ x.score > y.score \/ (x.score = y.score /\ x.repo < y.repo)
                       \/ (x.score = y.score /\ x.repo = y.repo /\ x.chunk < y.chunk)
    IN  [statuses |-> [r \in ToSet(considered) |-> [searched |-> Opens(repos[r]), reason |-> repos[r].state,
                                                    hits |-> Len(Hits(r))]],
         registered |-> Cardinality(DOMAIN repos), total |-> Cardinality(all), truncated |-> Cardinality(all) > top,
         results |-> First(InOrderOf(all, Ahead), top)]
=============================================================================
