----------------------------- MODULE MC_Answers -----------------------------
(* Graphs and arguments for the read-only tools.                           *)
EXTENDS Answers

Edge(s, p, o) == [s |-> s, p |-> p, o |-> o, w |-> IF s < o THEN 90 ELSE 60]
Calls(pairs) == {Edge(q[1], "calls", q[2]) : q \in pairs}
Db(n, edges, kind) ==
    [nodes |-> 1..n, edges |-> edges, kind |-> kind, name |-> [i \in 1..n |-> IF i = 1 THEN "main" ELSE "f"],
     file |-> [i \in 1..n |-> IF i = 2 THEN 1 ELSE i], dir |-> [i \in 1..n |-> i],
     lang |-> [i \in 1..n |-> IF i = n THEN "b" ELSE "a"], lines |-> [i \in 1..n |-> 10 * (i - 1)],
     cap |-> 100, perNode |-> 200, rows |-> 500, like |-> {}, sweeps |-> [exact |-> 100, budget |-> 50], truncated |-> FALSE]
Functions(n) == [i \in 1..n |-> "function"]

(* Every call graph on three symbols, and some on four: a chain, a diamond *)
(* and a ring.                                                             *)
AllCalls(n) == {q \in (1..n) \X (1..n) : q[1] # q[2]}
Digraphs == {Db(3, Calls(E), Functions(3)) : E \in SUBSET AllCalls(3)}
            \cup {Db(4, Calls(E), Functions(4)) : E \in {{<<1, 2>>, <<2, 3>>, <<3, 4>>},
                     {<<1, 2>>, <<1, 3>>, <<2, 4>>, <<3, 4>>}, {<<2, 1>>, <<1, 4>>, <<4, 3>>, <<3, 2>>}}}

(* Two triangles with a bridge, a ring, a star with a tail, two parts; the *)
(* loader's caps at their limits; all kinds of edges.                      *)
Ring(n) == {<<i, (i % n) + 1>> : i \in 1..n}
Shapes == {Db(6, Calls(E), Functions(6)) : E \in
             {{<<1, 2>>, <<2, 3>>, <<3, 1>>, <<3, 4>>, <<4, 5>>, <<5, 6>>, <<6, 4>>},
              Ring(6), {<<1, 2>>, <<1, 3>>, <<1, 4>>, <<4, 5>>, <<5, 6>>},
              {<<1, 2>>, <<2, 1>>, <<3, 4>>, <<4, 5>>, <<5, 3>>},
              {<<1, 2>>, <<2, 3>>, <<3, 4>>, <<4, 5>>, <<5, 6>>, <<2, 5>>},
              {q \in (1..6) \X (1..6) : q[1] < q[2] /\ (q[2] <= 3 \/ q[1] >= 4)}}}
Mixed == Db(5, {Edge(1, "defines", 2), Edge(1, "calls", 2), Edge(2, "calls", 3), Edge(3, "inherits", 4),
                Edge(5, "imports", 1), Edge(3, "tested_by", 5), Edge(4, "routes_to", 2), Edge(2, "calls", 2)},
            [i \in 1..5 |-> <<"module", "function", "class", "class", "test">>[i]])
Capped == {[Mixed EXCEPT !.cap = c[1], !.perNode = c[2]] : c \in {<<3, 200>>, <<5, 1>>, <<5, 200>>}}
(* More nodes than betweenness is exact for, and more cycles of components *)
(* than are listed.                                                        *)
Sampled == {[Db(6, Calls({<<i, i + 1>> : i \in 1..5} \cup {<<2, 5>>}), Functions(6)) EXCEPT !.sweeps = [exact |-> 5, budget |-> k]] :
              k \in {2, 4}}
Tangled == [Db(6, Calls({<<1, 2>>, <<2, 1>>, <<3, 4>>, <<4, 3>>, <<5, 6>>, <<6, 5>>, <<2, 3>>}), Functions(6))
            EXCEPT !.file = [i \in 1..6 |-> i]]
(* More rows than a query returns: a symbol many call and one that calls   *)
(* many, parallel rows; a file whose pattern takes a symbol of another.    *)
Crowded == {[Db(6, Calls(E), Functions(6)) EXCEPT !.rows = 2] : E \in
              {{<<1, 6>>, <<2, 6>>, <<3, 6>>, <<4, 6>>, <<6, 5>>, <<4, 3>>},
               {<<1, 2>>, <<1, 3>>, <<1, 4>>, <<1, 5>>, <<2, 6>>, <<4, 6>>, <<5, 6>>, <<3, 4>>}}}
           \cup {[Db(4, Calls({<<2, 4>>, <<1, 2>>, <<4, 3>>, <<4, 1>>}) \cup {Edge(2, "imports", 4), Edge(3, "imports", 4)},
                     Functions(4)) EXCEPT !.rows = 2]}
Alike == [Db(5, {Edge(1, "defines", 2), Edge(5, "calls", 2), Edge(3, "calls", 2), Edge(4, "calls", 3), Edge(4, "imports", 1)},
             <<"module", "function", "function", "function", "module">>)
          EXCEPT !.file = <<1, 1, 3, 4, 3>>, !.like = {<<1, 3>>}]
(* Small graphs, one for each group of tools that do not read the graph.   *)
Tiny(k) == [Db(3, Calls({<<1, 2>>}), Functions(3)) EXCEPT !.cap = 3, !.perNode = k]
Groups == <<"search", "budget", "diff", "copies", "texts", "rename", "claims">>
TinyOf == [g \in ToSet(Groups) |-> Tiny(CHOOSE k \in DOMAIN Groups : Groups[k] = g)]

(* A route that reaches a handler which calls on, a schedule, a hotspot.   *)
Routed == [Db(6, {Edge(1, "routes_to", 3), Edge(3, "calls", 4), Edge(3, "dispatches", 5), Edge(2, "calls", 4),
                  Edge(4, "calls", 6), Edge(5, "calls", 6), Edge(2, "tested_by", 5)},
              <<"route", "function", "function", "method", "function", "function">>)
           EXCEPT !.name = <<"r", "main", "f", "f", "auth", "g">>]

MCDatabases == Range(TinyOf) \cup Crowded \cup Sampled \cup {Alike, Tangled} \cup {Routed} \cup Capped \cup Shapes \cup Digraphs

(* Revisions of a repository: names against the order of the entities, a   *)
(* name that two entities have, a symbol more, an edge that weakened.      *)
Rev(n, E, canon) == [nodes |-> 1..n, edges |-> E, kind |-> [i \in 1..n |-> IF i = 1 THEN "class" ELSE "function"],
    canon |-> canon, name |-> [i \in 1..n |-> "f"], file |-> [i \in 1..n |-> i], lang |-> [i \in 1..n |-> "a"],
    dir |-> [i \in 1..n |-> i], lines |-> [i \in 1..n |-> 1], truncated |-> FALSE]
TwoGroups == Calls({<<1, 2>>, <<3, 4>>})
Revisions4 == {Rev(4, TwoGroups, <<1, 2, 3, 4>>), Rev(4, TwoGroups, <<3, 4, 1, 2>>), Rev(4, Calls({<<1, 3>>, <<2, 4>>}), <<1, 2, 3, 4>>),
               Rev(4, Calls({<<1, 2>>, <<4, 3>>}), <<1, 2, 3, 4>>), Rev(4, TwoGroups, <<1, 2, 3, 3>>),
               Rev(5, TwoGroups \cup {Edge(4, "calls", 5)}, <<5, 2, 3, 4, 1>>), Rev(3, Calls({<<1, 2>>}), <<2, 3, 1>>)}
File(class, status, present, sub) == [class |-> class, status |-> status, present |-> present, sub |-> sub]
Kinds == {File("source", "normal", TRUE, 0), File("script", "normal", TRUE, 0), File("bare", "normal", TRUE, 0),
          File("source", "missing", FALSE, 0), File("script", "missing", FALSE, 0), File("source", "unversioned", TRUE, 0),
          File("source", "deleted", FALSE, 0), File("other", "normal", TRUE, 0), File("source", "normal", TRUE, 1)}
Sub(i, t) == [initialised |-> i, tree |-> t]
TextsOf(S, k) == UNION {[1..m -> S] : m \in 1..k}
Text(f, lang) == [text |-> f, lang |-> lang, inside |-> TRUE, present |-> TRUE, size |-> Len(f), decodes |-> TRUE, eol |-> "crlf"]
Repo(a, b) == <<Text(<<"old", "#", "old", "nl", "older", "old">>, a), Text(<<"old", "x", "old">>, b), Text(<<"x", "old">>, "cobol")>>
Renamed3(names) == [Db(3, {Edge(2, "calls", 1), Edge(1, "defines", 1)}, Functions(3)) EXCEPT !.name = names, !.file = <<1, 2, 3>>]
Renaming == {[view |-> Renamed3(n), repo |-> r, maxFiles |-> k] :
               n \in {<<"old", "f", "g">>, <<"old", "old", "g">>}, k \in {1, 9},
               r \in {Repo("python", "ruby"), Repo("c", "python"),
                      [Repo("python", "ruby") EXCEPT ![2].decodes = FALSE], [Repo("python", "ruby") EXCEPT ![1].size = 11],
                      [Repo("python", "ruby") EXCEPT ![2].present = FALSE]}}
(* Files a/hyb.py and a/x.md; a query that spells a name in another way.  *)
Path(dir, file, ext) == [path |-> <<<<<<dir>>>>, <<<<file>>, <<ext>>>>>>, symbol |-> <<>>, separated |-> TRUE]
Symbol(p, words) == [p EXCEPT !.symbol = <<words>>]
Dotted(segments) == [path |-> <<segments>>, symbol |-> <<>>, separated |-> FALSE, shaped |-> TRUE]
Plain(w) == [Dotted(<<<<w>>>>) EXCEPT !.shaped = FALSE]
Hyb == Path("a", "hyb", "py")
Md == Path("a", "x", "md")
Chunk(source, path, line, parts, words, lead) == [source |-> source, path |-> path, line |-> line, code |-> line > 0,
                                                  parts |-> parts, words |-> words, lead |-> lead]
Ent(name, line) == [name |-> name, path |-> Hyb, line |-> line]
Chunks == <<Chunk(1, Hyb, 1, {"parse", "query", "and"}, {"parse", "and"}, {"parse"}), Chunk(1, Hyb, 5, {"query"}, {}, {"query"}),
            Chunk(2, Md, 0, {"parse", "query"}, {"query"}, {"parse", "query"}), Chunk(2, Md, 0, {"parse", "query"}, {"parse", "query"}, {}),
            Chunk(1, Hyb, 9, {"parse", "query"}, {}, {"parse", "query"})>>
Store(o, rel, ents) == [order |-> o, relevance |-> rel, chunk |-> Chunks, entity |-> ents]
Stores == {Store(o, rel, ents) : o \in {<<1, 2, 3, 4, 5>>, <<4, 1, 3, 2, 5>>}, rel \in {<<1, 4, 3>>, <<3, 4, 1>>},
             ents \in {<<Ent(Symbol(Hyb, <<"parse", "query">>), 5), Ent(Symbol(Hyb, <<"run">>), 1)>>,
                       <<Ent(Symbol(Hyb, <<"parse">>), 1), Ent(Symbol(Hyb, <<"parse", "query">>), 1), Ent(Symbol(Hyb, <<"run">>), 9),
                         Ent(Symbol(Hyb, <<"run">>), 5)>>}}
Ask(tokens, names) == [tokens |-> tokens, names |-> names]
Queries == {Ask(<<"parse">>, <<Plain("parse")>>), Ask(<<"parse", "query">>, <<Dotted(<<<<"parse", "query">>>>)>>),
            Ask(<<"AND", "parse">>, <<Plain("and"), Plain("parse")>>), Ask(<<>>, <<>>),
            Ask(<<"run", "hyb">>, <<Dotted(<<<<"hyb">>, <<"run">>>>), Dotted(<<<<"hyb">>, <<"run">>>>), Plain("run")>>),
            Ask(<<"hyb", "parse">>, <<Dotted(<<<<"hyb">>, <<"py">>>>), Dotted(<<<<"parse", "query">>>>)>>)}
Registries == {[r \in 1..3 |-> [state |-> s[r], store |-> Store(<<3, 1, 5, 4, 2>>, <<>>, <<>>)]] :
                 s \in [1..3 -> {"gone", "no graph", "unreadable", "ok"}]}

(* Words by spelling: 0, 1, cache, disabled, enabled, not, second,         *)
(* seconds, the, ttl, unsupported.                                         *)
Word(kind, fold, parts) == [digit |-> kind = "digit", stop |-> kind = "stop", negates |-> kind = "no", fold |-> fold, parts |-> parts]
Lexicon == <<Word("digit", 1, {}), Word("digit", 2, {}), Word("", 3, {}), Word("", 4, {"disabled"}), Word("", 5, {"enabled"}),
             Word("no", 6, {}), Word("", 7, {}), Word("", 7, {}), Word("stop", 9, {}), Word("", 10, {}),
             Word("", 11, {"unsupported", "supported"})>>
Claim(subject, about, says, value, unit) == [subject |-> subject, predicate |-> 1, about |-> about, says |-> says,
                                             quantity |-> [value |-> value, unit |-> unit], rank |-> 0]
ClaimPool == <<Claim(1, {9, 3, 10, 1}, {8}, 30, "seconds"), Claim(2, {1}, {3, 10, 8}, 300, "seconds"), Claim(3, {2, 3, 10}, {8}, 5, "seconds"),
               Claim(1, {9, 3, 10, 1}, {}, 30000, "milliseconds"), Claim(1, {9, 3, 10, 1}, {5}, -1, ""), Claim(4, {1, 3}, {6, 4}, -1, ""),
               Claim(5, {1}, {11}, -1, ""), Claim(6, {1}, {11, 3}, 30, "nodes"), Claim(7, {9}, {}, 5, ""), Claim(8, {9}, {}, 6, "")>>
ClaimSets == {[i \in 1..3 |-> [ClaimPool[f[i]] EXCEPT !.rank = f[i]]] : f \in {g \in [1..3 -> DOMAIN ClaimPool] : IsInjective(g)}}

(* Source files: paths and rules, compiler configurations, programs.       *)
Seg(stem, ext) == [dot |-> FALSE, stem |-> stem, ext |-> ext]
Rule(pattern, negated, directory) == [comment |-> FALSE, pattern |-> pattern, negated |-> negated, directory |-> directory]
RulePool == {Rule(<<Seg("*", "py")>>, FALSE, FALSE), Rule(<<Seg("k", "py")>>, TRUE, FALSE), Rule(<<Seg("a", "")>>, FALSE, TRUE),
             Rule(<<Seg("a", ""), AnyDepth>>, TRUE, FALSE), Rule(<<AnyDepth, Seg("b", ""), Seg("*", "*")>>, FALSE, FALSE),
             [Rule(<<Seg("x", "md")>>, FALSE, FALSE) EXCEPT !.comment = TRUE]}
IgnorePaths == <<<<Seg("k", "py")>>, <<Seg("a", ""), Seg("k", "py")>>, <<Seg("a", ""), Seg("b", ""), Seg("x", "md")>>,
                 <<Seg("b", ""), Seg("a", ""), Seg("x", "md")>>, <<[Seg("a", "") EXCEPT !.dot = TRUE], Seg("x", "md")>>, <<Seg("x", "md")>>>>
To(pre, star, spelling) == [pre |-> pre, star |-> star, spelling |-> spelling]
Alias(prefix, star, targets) == [prefix |-> prefix, star |-> star, targets |-> targets]
Compiler(state, base, patterns) == [state |-> state, base |-> base, patterns |-> patterns]
AliasPool == {Alias(<<"at">>, TRUE, <<To(<<"s">>, TRUE, 1), To(<<"t">>, TRUE, 2)>>), Alias(<<"at", "u">>, TRUE, <<To(<<"s", "..", "v">>, TRUE, 3)>>),
              Alias(<<"at", "u">>, FALSE, <<To(<<"w">>, FALSE, 4)>>), Alias(<<>>, TRUE, <<To(<<"any">>, TRUE, 5)>>), Alias(<<"b">>, TRUE, <<>>)}
Module(segments, ext) == [segments |-> segments, ext |-> ext]
Sym(kind, name, q, class, parent, start, end) == [kind |-> kind, name |-> name, qualified |-> q, class |-> class, parent |-> parent,
                                                  start |-> start, end |-> end, width |-> q]
Stmt(target, value, recv, method, args) == [form |-> "statement", target |-> target, value |-> value, recv |-> recv, method |-> method, args |-> args]
Mark(form) == [Stmt("", "", "", "", {}) EXCEPT !.form = form]
StmtPool == {Stmt("x", "A", "", "", {}), Stmt("x", "B", "", "", {}), Stmt("y", "x", "", "", {}), Stmt("x", "y", "", "", {}), Stmt("x", "A", "x", "m", {}),
             Stmt("x", "call", "", "input", {}), Stmt("", "", "y", "m", {}), Mark("open"), Mark("close")}
Balanced(b) == \A k \in DOMAIN b : Cardinality({i \in 1..k : b[i].form = "open"}) >= Cardinality({i \in 1..k : b[i].form = "close"})
Numbered(b) == [i \in DOMAIN b |-> [form |-> b[i].form, target |-> b[i].target, value |-> b[i].value, recv |-> b[i].recv,
                                     method |-> b[i].method, args |-> b[i].args, line |-> i]]
Bodies == {Numbered(b \o <<Stmt("", "", "x", "m", {}), Stmt("", "", "", "eval", {"x"})>>) : b \in {c \in [1..3 -> StmtPool] : Balanced(c)}}
Ref(from, kind, name) == [from |-> from, kind |-> kind, name |-> name, spec |-> IF kind = "imports" THEN <<"at", "k">> ELSE <<>>]
Program(kind, weak) ==
    <<[path |-> 10, lang |-> "python", fallback |-> FALSE, module |-> Module(<<"run">>, 1), body |-> <<>>,
       symbols |-> <<Sym("module", "run", 10, "", 0, 1, 1), Sym(kind, "go", 11, "", 10, 1, 9), Sym("function", "g", 12, "", 11, 2, 3)>>,
       refs |-> <<Ref(11, "calls", "m"), Ref(12, "calls", "m"), Ref(10, "imports", "lib"), Ref(11, "calls", "eval")>>,
       matches |-> <<[label |-> 13, handler |-> "g", line |-> 1], [label |-> 13, handler |-> "go", line |-> 2], [label |-> 14, handler |-> "", line |-> 3],
                     [label |-> 15, handler |-> "m", line |-> 4], [label |-> 16, handler |-> "g", line |-> 5]>>],
      [path |-> 20, lang |-> "javascript", fallback |-> weak, module |-> Module(<<"s", "k">>, 1), matches |-> <<>>,
       body |-> Numbered(<<Stmt("", "", "x", "m", {})>>),
       symbols |-> <<Sym("module", "lib", 20, "", 0, 1, 1), Sym("class", "A", 21, "", 20, 1, 4), Sym("method", "m", 22, "A", 21, 2, 3),
                     Sym("class", "B", 23, "", 20, 5, 9), Sym("method", "m", 24, "B", 23, 6, 7)>>,
       refs |-> <<Ref(23, "inherits", "A"), Ref(22, "calls", "m")>>]>>
Serving(python, script) == ("python" :> python) @@ ("javascript" :> script)
NoServer == [state |-> "absent", defs |-> <<>>]
Works(line) == [state |-> "works", defs |-> [m |-> <<<<3, 1>>, <<1, 7>>, <<1, line>>>>, input |-> <<>>, eval |-> <<<<2, 6>>>>]]
Server(line) == [state |-> "works", defs |-> [m |-> <<<<2, 6>>, <<2, line>>>>]]
Line(indent, key) == [indent |-> indent, key |-> key, header |-> FALSE]
Lines == {Line(0, 1), Line(2, 2), Line(2, 1), Line(4, 3), Line(2, 0), [Line(0, 2) EXCEPT !.header = TRUE]}
Owners == [path |-> 10, reads |-> {}, symbols |-> <<Sym("module", "c", 10, "", 0, 1, 1), Sym("class", "A", 11, "", 10, 2, 5), Sym("method", "m", 12, "A", 11, 3, 4)>>]
OnDisk(inside, present, size, readable) == [inside |-> inside, present |-> present, size |-> size, readable |-> readable, tokens |-> size, real |-> size - 1]
DiskPool == {OnDisk(TRUE, TRUE, 7, TRUE), OnDisk(TRUE, TRUE, 12, TRUE), OnDisk(TRUE, FALSE, 5, FALSE), OnDisk(FALSE, TRUE, 4, TRUE), OnDisk(TRUE, TRUE, 3, FALSE)}

(* Settings, paragraphs, words and answers.                                *)
Setting(object, keys) == [object |-> object, keys |-> keys]
SettingFiles == {[state |-> st, sections |-> <<>>] : st \in {"absent", "invalid"}} \cup
    {[state |-> "ok", sections |-> [s \in {"network", "mcp", "unknown"} |-> IF s = "mcp" THEN m ELSE n]] :
        n \in {Setting(o, k) : o \in BOOLEAN, k \in {[outbound |-> TRUE], [other |-> "x"]}},
        m \in {Setting(TRUE, [hosts |-> <<"f">>]), Setting(TRUE, [bind |-> "all", hosts |-> <<>>]), Setting(FALSE, <<>>)}}
Environments == {<<>>} \cup [outbound : {"1", "on", "", "2"}, hosts : {<<>>, <<"">>, <<"e", "">>}] \cup [bind : {"any", ""}]
Paragraph(raw, len) == [raw |-> raw, len |-> len, gap |-> 2]
Paragraphs == UNION {[1..k -> {Paragraph(1, 0), Paragraph(1, 1), Paragraph(3, 2), Paragraph(3, 3), Paragraph(9, 9)}] : k \in 0..4}
WordLists == UNION {[1..k -> {<<>>, <<2>>, <<3>>, <<2, 2>>, <<9>>, <<1, 7, 3>>}] : k \in 0..3}
Writing(q, a) == [ingest |-> FALSE, question |-> q, answer |-> a, stamp |-> 1]
MemorySteps == {Writing(<<"why">>, "a"), Writing(<<"space", "WHY", "tab">>, "b"), [Writing(<<"why">>, "b") EXCEPT !.stamp = 2], Writing(<<"why", "mark">>, "a"),
                Writing(<<"tab">>, "a"), [ingest |-> TRUE]}

Walk3(o, d, depth, n, b) == [order |-> o, direction |-> d, depth |-> depth, maxNodes |-> n, budget |-> b]
MCArgs == [depths |-> {1, 3}, caps |-> {1, 3, 50}, capPairs |-> {<<1, 50>>, <<50, 3>>, <<50, 50>>},
           walks |-> {Walk3("breadth", "out", 1, 50, 100), Walk3("breadth", "out", 3, 50, 100),
                      Walk3("breadth", "both", 3, 3, 100), Walk3("breadth", "in", 3, 50, 4),
                      Walk3("depth", "out", 3, 50, 100), Walk3("depth", "both", 3, 3, 4)},
           limits |-> {2, 20}, spans |-> {1, 20}, resolutions |-> {4, 8}, shares |-> {25, 50},
           rows |-> {<<1, 2, 3, 4, 5, 6>>, <<6, 5, 4, 3, 2, 1>>},
           slices |-> {[depth |-> 1, cap |-> 50, budget |-> 2], [depth |-> 3, cap |-> 2, budget |-> 0],
                       [depth |-> 3, cap |-> 50, budget |-> 4]},
           payloads |-> {[fixed |-> 3, each |-> <<1, 2>>, lists |-> l] : l \in (0..4) \X (0..4)},
           budgets |-> {0, 4, 7, 9, 12},
           once |-> TinyOf, revisions |-> Revisions4,
           snapshots |-> {[before |-> Structural, after |-> p, res |-> r, maxNodes |-> k] :
                            p \in {Structural, {"imports"}}, r \in {4, 8}, k \in {3, 100}},
           snapshotFiles |-> {[inside |-> i, present |-> p, size |-> z, json |-> j, kind |-> k, version |-> n, complete |-> c] :
                i \in BOOLEAN, p \in BOOLEAN, z \in {64, 65}, j \in BOOLEAN, k \in {"snapshot", "diff"}, n \in {1, 2}, c \in BOOLEAN},
           copies |-> [1..2 -> Kinds], submodules |-> {<<Sub(i, t)>> : i \in BOOLEAN, t \in BOOLEAN},
           histories |-> {<<{1, 2}, {1, 2, 3}, {2}>>, <<{1, 2}, {2, 3}, {1, 2, 3, 4}>>, <<{5, 1}, {5, 1}, {2, 3}>>, <<>>},
           changed |-> {{1, 3}, {4, 6}}, churn |-> {<<>>, (1 :> 3) @@ (2 :> 1)},
           texts |-> [python |-> TextsOf({"old", "#", "quote", "three", "esc", "nl"}, 4),
                      ts |-> TextsOf({"old", "//", "open", "close", "tick", "nl"}, 4)],
           renames |-> Renaming, symbols |-> {[node |-> 1, name |-> ""], [node |-> 0, name |-> "old"], [node |-> 0, name |-> "g"]},
           saved |-> {[file |-> 0, text |-> <<>>], [file |-> 1, text |-> <<"older", "old", "x">>]},
           stores |-> Stores, lexicon |-> Lexicon, claims |-> ClaimSets, queries |-> Queries, registries |-> Registries, vectors |-> {<<>>, <<4, 1>>, <<2, 3, 5, 1, 4>>},
           reranks |-> {<<>>, <<1, 5, 5, 2, 4>>, <<7, 7, 7, 7, 7>>},
           bounds |-> {[flows |-> 500, steps |-> 200, depth |-> 1], [flows |-> 500, steps |-> 3, depth |-> 8], [flows |-> 2, steps |-> 200, depth |-> 8]},
           names |-> <<<<1, 2, 3, 4, 5, 6>>, <<6, 2, 2, 4, 1, 1>>, <<6, 1, 2, 5, 3, 3>>>>,
           ignorePaths |-> IgnorePaths, ignoreFiles |-> {[state |-> "ok", lines |-> l] : l \in UNION {[1..k -> RulePool] : k \in 0..3}}
                              \cup {[state |-> st, lines |-> <<>>] : st \in {"absent", "unreadable", "large"}},
           compilerFiles |-> {<<Compiler("absent", <<>>, {}), Compiler("object", b, P)>> : b \in {<<>>, <<"s">>}, P \in SUBSET AliasPool}
                             \cup {<<Compiler(st, <<>>, {}), Compiler("object", <<>>, AliasPool)>> : st \in {"unreadable", "large", "invalid", "list"}},
           specifiers |-> {<<"at", "u">>, <<"at", "u", "k">>, <<"k">>, <<>>},
           knownModules |-> {{Module(<<"s", "u">>, 1), Module(<<"v", "k">>, 1)}, {Module(<<"s", "u", "k">>, 1), Module(<<"v", "k">>, 1), Module(<<"any", "k">>, 0)}, {Module(<<"t", "u", "index">>, 1), Module(<<"any", "k">>, 1)},
                             {Module(<<"w">>, 1), Module(<<"s", "s", "u", "k">>, 0), Module(<<"s", "k">>, 1)}},
           project |-> [present |-> TRUE, error |-> FALSE, base |-> <<>>, patterns |-> AliasPool],
           bodies |-> Bodies, programs |-> {Program("function", FALSE), Program("test", TRUE)},
           servers |-> {Serving(NoServer, NoServer), Serving(Works(1), [NoServer EXCEPT !.state = "fails"]), Serving(Works(2), Server(2))},
           configFiles |-> {[form |-> "yaml", lines |-> l] : l \in [1..4 -> Lines]} \cup {[form |-> f, lines |-> l] : f \in {"ini", "env"}, l \in [1..2 -> Lines]},
           reads |-> {{[line |-> 3, key |-> <<1>>], [line |-> 0, key |-> <<2>>], [line |-> 9, key |-> <<1, 2>>]}}, owners |-> Owners,
           answers |-> {[objects |-> o, tokens |-> <<2, 3>>, whole |-> 7] : o \in {<<{1}, {2, 3}>>, <<{1, 2}, {1, 3}, {4}>>, <<>>}},
           readable |-> {[p \in 1..4 |-> IF p = 4 THEN OnDisk(TRUE, TRUE, 6, TRUE) ELSE f[p]] : f \in [1..3 -> DiskPool]},
           restored |-> {[files |-> f, rejects |-> r, file |-> [opens |-> o, intact |-> c, tables |-> t, schema |-> s]] :
                f \in SUBSET {"db", "wal", "shm"}, r \in {{}, {"db"}, {"wal"}}, o \in BOOLEAN, c \in BOOLEAN,
                t \in {RequiredTables, RequiredTables \ {"meta"}}, s \in {-1, 0, 1, 2}},
           reports |-> {[top |-> 1, depth |-> 3, cap |-> 500, limit |-> 1, bounds |-> [depth |-> 4, nodes |-> 200, entries |-> 5]],
                        [top |-> 10, depth |-> 1, cap |-> 500, limit |-> -1, bounds |-> [depth |-> 2, nodes |-> 200, entries |-> 5]],
                        [top |-> 2, depth |-> 1, cap |-> 500, limit |-> -1, bounds |-> [depth |-> 2, nodes |-> 3, entries |-> 2]]},
           settings |-> SettingFiles, environments |-> Environments,
           defaults |-> [network |-> [outbound |-> FALSE], mcp |-> [bind |-> "loop", hosts |-> <<>>]],
           paragraphs |-> Paragraphs, words |-> WordLists, answered |-> UNION {[1..k -> MemorySteps] : k \in 0..4},
           cost |-> [i \in 1..6 |-> IF i = 3 THEN 3 ELSE 1]]
=============================================================================
