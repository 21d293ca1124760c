------------------------------ MODULE Reports -------------------------------
(***************************************************************************)
(* What a pipeline makes of the graph: the database it restored before it  *)
(* trusts it, the report on a change and its gates (code/report.py,        *)
(* code/pr_cli.py), the sections of the comment (code/pr_comment.py); and  *)
(* the graph as a picture and as notes (export/graphdata.py,               *)
(* export/obsidian.py).  Numbers are exact where the code rounds.          *)
(***************************************************************************)
EXTENDS Sources


(* A restored database, and what lies beside it.  `rejects` names the      *)
(* files that cannot be removed; a schema of -1 cannot be read, and 0 is   *)
(* not recorded.                                                           *)
RequiredTables == {"entities", "meta", "relationships", "schema_migrations"}
CacheFailureReason(file, major) ==
    IF ~file.opens THEN "not opened"
    ELSE IF ~file.intact THEN "failed its check"
    ELSE IF ~(RequiredTables \subseteq file.tables) THEN "missing tables"
    ELSE IF file.schema = -1 THEN "unreadable schema"
    ELSE IF file.schema > major THEN "newer schema" ELSE "none"
SchemaMajor(file) == IF file.opens /\ "meta" \in file.tables THEN Max({0, file.schema}) ELSE 0
RemoveDatabaseFiles(files, rejects) == files \cap rejects
PrepareCachedDatabase(cache, major) ==
    IF "db" \notin cache.files
    THEN [status |-> "miss", left |-> cache.files, schema |-> 0]
    ELSE IF CacheFailureReason(cache.file, major) = "none"
    THEN [status |-> "hit", left |-> cache.files, schema |-> SchemaMajor(cache.file)]
    ELSE [status |-> "unusable", left |-> RemoveDatabaseFiles(cache.files, cache.rejects), schema |-> 0]
(* What the report is then computed from.                                  *)
OpenForReport(cache, check, full, major) ==
    LET prepared == PrepareCachedDatabase(cache, major)
    IN  [prepared    |-> prepared, files |-> IF check THEN prepared.left ELSE cache.files,
         incremental |-> ~full /\ (~check \/ prepared.status = "hit")]

(* Where flows through a change begin: callers are followed backwards, one *)
(* query a level, which returns the first `nodes` pairs by caller; pairs   *)
(* of one caller come in any order (`rows`).                               *)
CallersOf(v, frontier, rows) ==
    InOrderOf(UNION {{<<m, n>> : m \in Incoming(v, {"calls"}, n)} : n \in ToSet(frontier)},
              LAMBDA p, q : p[1] < q[1] \/ (p[1] = q[1] /\ Position(rows, p[2]) < Position(rows, q[2])))
RECURSIVE Upstream(_, _, _, _, _)
Upstream(s, v, b, rows, depth) ==
    IF depth = 0 \/ s.frontier = <<>> \/ Cardinality(s.visited) >= b.nodes THEN s ELSE
    LET found   == ToSet(Foremost(CallersOf(v, s.frontier, rows), b.nodes))
        entries == s.entries \cup (ToSet(s.frontier) \ {q[2] : q \in found})
        next    == {q[1] : q \in found} \ s.visited
    IN  Upstream([frontier |-> Foremost(Sorted(next), Max({0, b.nodes - Cardinality(entries)})),
                  visited |-> s.visited \cup next, entries |-> entries], v, b, rows, depth - 1)
FlowEntryPoints(v, changed, b, rows) ==
    LET s == Upstream([frontier |-> Sorted(changed), visited |-> changed, entries |-> {}], v, b, rows, b.depth)
    IN  Foremost(Sorted(s.entries \cup ToSet(s.frontier)), b.entries)
FlowsThrough(v, all, changed) ==
    {[path |-> all[i], score |-> <<Criticality(v, all, all[i]), Len(all)>>] :
        i \in {j \in DOMAIN all : Len(all[j]) >= 2 /\ ToSet(all[j]) \cap changed # {}}}
FlowsFrom(v, entries, changed) ==
    UNION {FlowsThrough(v, FlowPaths(v, e, 6, 50, 2000).paths, changed) : e \in ToSet(entries)}
Gravest(flows) ==
    InOrderOf(flows, LAMBDA f, g : Over(f.score, g.score) \/ (~Over(g.score, f.score) /\ Earlier(f.path, g.path)))
FlowRows(v, entries, changed, top) ==
    LET flows == FlowsFrom(v, entries, changed)
    IN  [entries |-> entries, rows |-> Foremost(Gravest(flows), top), found |-> Cardinality(flows)]
AffectedFlows(v, changed, top, b, rows) ==
    FlowRows(v, IF changed = {} THEN <<>> ELSE FlowEntryPoints(v, changed, b, rows), changed, top)

(* The gaps of the whole repository, cut, then those of the change.        *)
TestGaps(v, gaps, files, top) ==
    LET Calls(n) == Cardinality(Incoming(v, {"calls"}, n))
        Keep(s)  == SelectSeq(Foremost(s, top), LAMBDA n : files = {} \/ v.file[n] \in files)
    IN  [hotspots |-> Keep(InOrderOf(gaps.hotspots.rows, LAMBDA m, n : Calls(m) > Calls(n) \/ (Calls(m) = Calls(n) /\ m < n))),
         isolated |-> Keep(Sorted(gaps.isolated))]
ReviewOf(risk, d, v, gaps, files, top, b, rows) ==
    LET scored == InOrderOf(ToSet(risk.top), LAMBDA m, n : risk.score[m] > risk.score[n] \/ (risk.score[m] = risk.score[n] /\ m < n))
    IN  [risk |-> risk, level |-> risk.level, symbols |-> Foremost(scored, top), truncated |-> Len(scored) > top,
         untested |-> risk.model.untested \cap ToSet(scored), count |-> Cardinality(DOMAIN risk.combined),
         flows |-> AffectedFlows(d, ToSet(scored), top, b, rows), gaps |-> TestGaps(v, gaps, files, top)]
BuildReview(d, v, comm, gaps, files, asked, b, rows) ==
    ReviewOf(ChangeRisk(v, comm, files, {}, <<>>, Max({Clamp(asked, 1, 200), b.entries})),
             d, v, gaps, files, Clamp(asked, 1, 200), b, rows)
(* The counts, and who depends on the files that changed.                  *)
BuildReport(d, files, depth, cap, rows) ==
    [symbols  |-> [k \in {d.kind[n] : n \in d.nodes} |-> Cardinality({n \in d.nodes : d.kind[n] = k})],
     edges    |-> [p \in {e.p : e \in d.edges} |-> Cardinality(EdgesFor(d, {p}))],
     impacted |-> UNION {BlastRadiusForFile(d, f, depth, cap, rows) : f \in files}]

(* The gates.  A level of 0 says that no review was made, an impact of -1  *)
(* that there was nothing to compare with, a limit of -1 no limit.         *)
LevelNames == <<"low", "moderate", "elevated", "high">>
EvaluateGates(level, impacted, requested, limit) ==
    LET risk   == level # 0 /\ \E i \in DOMAIN LevelNames : LevelNames[i] = requested /\ level >= i
        impact == limit # -1 /\ impacted > limit
    IN  [risk |-> risk, impact |-> impact, failed |-> risk \/ impact]
(* The tables of the comment, each sorted and cut once more, and what it   *)
(* says in the place of a table or below it.                               *)
SymbolsSection(review, top) ==
    LET rows == Foremost(review.symbols, top)
    IN  [rows |-> rows, none |-> rows = <<>>, more |-> review.truncated, covered |-> {n \in ToSet(rows) : n \notin review.untested}]
FlowsSection(review, top) == LET rows == Foremost(review.flows.rows, top) IN [rows |-> rows, none |-> rows = <<>>]
GapsSection(review, top) ==
    LET hot  == Foremost(review.gaps.hotspots, top)
        lone == Foremost(review.gaps.isolated, top)
    IN  [hotspots |-> hot, isolated |-> lone, none |-> hot = <<>> /\ lone = <<>>]
RenderReviewSections(review, gate, asked) ==
    LET top == Clamp(asked, 1, 200)
    IN  [level |-> LevelNames[review.level], failed |-> gate.risk, overLimit |-> gate.impact, symbols |-> SymbolsSection(review, top),
         flows |-> FlowsSection(review, top), gaps |-> GapsSection(review, top)]

(* The picture: nodes up to a cap, the edges between them, a group of the  *)
(* legend for each community, the smallest ones in one group together.     *)
LoadGraph(d, maxNodes) ==
    LET nodes == {n \in d.nodes : Cardinality({m \in d.nodes : m < n}) < maxNodes}
    IN  [nodes |-> nodes, edges |-> {e \in d.edges : {e.s, e.o} \subseteq nodes}, truncated |-> nodes # d.nodes]
DegreeMap(g) ==
    [n \in g.nodes |-> Cardinality({e \in g.edges : e.s = n}) + Cardinality({e \in g.edges : e.o = n /\ e.s # n})]
LargestFirst(groups) ==
    InOrderOf(groups, LAMBDA A, B : Cardinality(A) > Cardinality(B) \/ (Cardinality(A) = Cardinality(B) /\ Min(A) < Min(B)))
Legend(ranked, most) ==
    LET named == IF Len(ranked) <= most THEN Len(ranked) ELSE most - 1
    IN  [i \in 1..Min({named + 1, Len(ranked)}) |->
           IF i <= named THEN [members |-> ranked[i], folded |-> 0]
           ELSE [members |-> UNION {ranked[k] : k \in i..Len(ranked)}, folded |-> Len(ranked) - named]]
CommunityGroups(g, most) ==
    LET weights == [q \in {{e.s, e.o} : e \in g.edges} |-> MapThenSumSet(LAMBDA e : e.w, {e \in g.edges : {e.s, e.o} = q})]
        Groups(comm) == {{n \in g.nodes : comm[n] = comm[m]} : m \in g.nodes}
    IN  Legend(LargestFirst(Groups(DetectCommunities(g.nodes, weights, 4))), most)

(* A vault has a note for each name; a name is a label and the last digits *)
(* of the identity, and the notes of an earlier export stay.               *)
NoteName(d, n, digits) == <<d.name[n], n % digits>>
ExportObsidian(d, vault, g, digits) ==
    LET names   == [n \in g.nodes |-> NoteName(d, n, digits)]
        Last1(k) == Max({n \in g.nodes : names[n] = k})
        written == [k \in {names[n] : n \in g.nodes} |->
                      [of |-> Last1(k), links |-> {<<e.p, names[e.o]>> : e \in {x \in g.edges : x.s = Last1(k)}}]]
    IN  [notes |-> written @@ vault, map |-> names, edges |-> Cardinality(g.edges), truncated |-> g.truncated]

(* dkg code-report, and the commands that export.                          *)
Restored == Once("budget") /\ \E cache \in Args.restored, check \in BOOLEAN, full \in BOOLEAN :
    Returns([tool |-> "restored", cache |-> cache, check |-> check, of |-> OpenForReport(cache, check, full, 1)])
Reviewed == Idle /\ \E v \in {View} : \E comm \in {Assignment(v, 4)} : \E gaps \in {KnowledgeGaps(v, Structural, comm)} :
    \E files \in Args.changed \cup {{}}, q \in Args.reports, rows \in Args.rows :
        \E review \in {BuildReview(db, v, comm, gaps, files, q.top, q.bounds, rows)},
           report \in {BuildReport(db, files, q.depth, q.cap, rows)} :
            LET impact == IF files = {} THEN -1 ELSE Cardinality(report.impacted)
                gate   == [l \in ToSet(LevelNames) \cup {"off"} |-> EvaluateGates(review.level, impact, l, q.limit)]
            IN  Returns([tool |-> "report", view |-> v, files |-> files, q |-> q, of |-> review, report |-> report, gate |-> gate,
                         gaps |-> gaps, comment |-> RenderReviewSections(review, gate["high"], q.top)])
Exported == Idle /\ \E most \in {2, 16}, maxNodes \in {2, 5, 100} :
    \E g \in {LoadGraph(db, maxNodes)} :
        Returns([tool |-> "export", most |-> most, graph |-> g, degree |-> DegreeMap(g), of |-> CommunityGroups(g, most)])
Noted == Idle /\ \E digits \in {4, 100}, maxNodes \in {2, 100} : \E before \in {ExportObsidian(db, <<>>, LoadGraph(db, 100), digits)} :
    \E g \in {LoadGraph([db EXCEPT !.name[1] = "renamed"], maxNodes)} :
        Returns([tool |-> "vault", before |-> before.notes, graph |-> g,
                 of |-> ExportObsidian([db EXCEPT !.name[1] = "renamed"], before.notes, g, digits)])
ReportNext == Restored \/ Reviewed \/ Exported \/ Noted
=============================================================================
