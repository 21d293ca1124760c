------------------------------- MODULE Tools --------------------------------
(***************************************************************************)
(* The read-only tools an agent calls (mcp/tools.py): each action is one   *)
(* tool's handler.  It reads the store, applies the defaults and bounds of *)
(* the handler and leaves its result in `answer`; no tool changes `db`.    *)
(* Arguments come from the sets the instance names in `Args`.              *)
(***************************************************************************)
EXTENDS Traversals, Structure, Communities, ContextSlices, Reviewing, Searching, Evidence

CONSTANTS Databases,  \* the graphs a server may be started on
          Args        \* a record: depths, caps, capPairs, walks, limits, spans, resolutions, shares, rows,
            \* slices, payloads, budgets

VARIABLES db, answer
vars == <<db, answer>>

None == [tool |-> "none"]
Init == db \in Databases /\ answer = None

Idle == answer = None
Returns(result) == Idle /\ answer' = result /\ UNCHANGED db
(* A tool that does not read the graph is tried on one of them only.       *)
Once(group) == Idle /\ db = Args.once[group]

(* Every analysis goes through the view the loader builds.  It       *)
(* holds `cap` nodes and `perNode` edges for each of them.                 *)
View == LoadCodeGraph(db, db.cap, db.perNode)

Impact == Idle /\ \E root \in db.nodes, depth \in Args.depths, cap \in Args.caps, rows \in Args.rows :
    Returns([tool |-> "impact", root |-> root, depth |-> Clamp(depth, 1, 10),
             cap |-> Clamp(cap, 1, 5000), of |-> BlastRadius(db, root, depth, cap, rows)])
ImpactOfFile == Idle /\ \E path \in {db.file[n] : n \in db.nodes}, depth \in Args.depths, rows \in Args.rows :
    Returns([tool |-> "impact_of_file", path |-> path, depth |-> Clamp(depth, 1, 10),
             of |-> BlastRadiusForFile(db, path, depth, 500, rows)])
Flow == Idle /\ \E root \in db.nodes, depth \in Args.depths, cap \in Args.caps, ids \in Args.rows :
    Returns([tool |-> "flow", root |-> root, depth |-> Clamp(depth, 1, 20), cap |-> cap,
             of |-> ExecutionFlow(db, root, depth, cap, 200, ids)])
Chained == Idle /\ \E root \in db.nodes, depth \in Args.depths, chains \in Args.caps, ids \in Args.rows :
    Returns([tool |-> "chains", root |-> root, depth |-> Clamp(depth, 1, 20), cap |-> chains,
             of |-> ExecutionFlow(db, root, depth, 500, chains, ids),
             paths |-> FlowPaths(db, root, depth, 500, 2000)])
FlowCriticality == Idle /\ \E root \in db.nodes, depth \in Args.depths, caps \in Args.capPairs :
    LET listed == FlowPaths(db, root, depth, caps[1], caps[2])
    IN  Returns([tool |-> "criticality", root |-> root, depth |-> Clamp(depth, 1, 20),
                 maxPaths |-> caps[1], maxNodes |-> caps[2], of |-> listed,
                 scores |-> [i \in DOMAIN listed.paths |->
                               Criticality(db, listed.paths, listed.paths[i])]])
FreeTraversal == Idle /\ \E root \in db.nodes, w \in Args.walks :
    LET q == [order |-> w.order, direction |-> w.direction, depth |-> Clamp(w.depth, 1, 20),
              maxNodes |-> w.maxNodes, budget |-> w.budget, preds |-> Structural, cost |-> Args.cost]
    IN  Returns([tool |-> "traverse", root |-> root, q |-> q, of |-> Traverse(db, root, q)])

Hubs == Idle /\ \E limit \in Args.limits, ids \in Args.rows :
    Returns([tool |-> "hubs", view |-> View, limit |-> limit, of |-> HubsAndBridges(View, Structural, limit, ids)])
Dead == Idle /\ \E modules \in BOOLEAN, limit \in Args.limits :
    Returns([tool |-> "dead", view |-> View, limit |-> limit, of |-> DeadCode(View, Structural, modules, limit)])
Large == Idle /\ \E least \in Args.spans, limit \in Args.limits :
    Returns([tool |-> "large", view |-> View, least |-> least, of |-> LargeSymbols(View, least, {}, limit)])

Assignment(v, res) == DetectCommunities(v.nodes, PairWeights(v, Structural), res)
Coupling == Idle /\ \E res \in Args.resolutions :
    Returns([tool |-> "coupling", view |-> View,
             of |-> UnexpectedCoupling(View, Structural, Assignment(View, res))])
Gaps == Idle /\ \E res \in Args.resolutions :
    Returns([tool |-> "gaps", view |-> View,
             of |-> KnowledgeGaps(View, Structural, Assignment(View, res))])
Overview == Idle /\ \E res \in Args.resolutions, limit \in Args.limits :
    \E v \in {View} : \E map \in {ArchitectureMap(v, Structural, Assignment(v, res), limit)} :
        Returns([tool |-> "architecture", view |-> v, limit |-> limit, of |-> map,
                 diagram |-> Diagram(map, 40)])

(* The community tools read the relationships, not the view: a node is an  *)
(* entity with a relationship, and no embedding model is installed.        *)
Related == {e.s : e \in db.edges} \cup {e.o : e \in db.edges}
Weights == [q \in {{e.s, e.o} : e \in db.edges} |->
              MapThenSumSet(LAMBDA e : e.w, {e \in db.edges : {e.s, e.o} = q})]
Unlike == [q \in DOMAIN Weights |-> 0]
Community == Idle /\ \E res \in Args.resolutions : Idle /\
    \E both \in {Combined(Related, Weights, Unlike, res)}, detector \in {"both", "ariadne", "mnemosyne"} :
        /\ Related # {}
        /\ Returns([tool |-> "community", res |-> res, detector |-> detector, both |-> both,
                    of |-> CASE detector = "both" -> both.assignment
                             [] detector = "ariadne" -> both.refined
                             [] detector = "mnemosyne" -> both.base])
(* Without a resolution (the command line's detector) Ariadne sweeps.      *)
CommunitySweep ==
    /\ Idle
    /\ Related # {}
    /\ Returns([tool |-> "sweep", of |-> Ariadne(Related, Weights, Unlike, 0)])
CommunitySplit == Idle /\ \E res \in Args.resolutions, weights \in {Weights} :
    \E found \in {Combined(Related, weights, Unlike, res).assignment}, share \in Args.shares :
        /\ Related # {}
        /\ Returns([tool |-> "split", res |-> res, before |-> found,
                    of |-> SplitOversized(Related, weights, found, share, res, 3)])

(* One predicate in one direction, by name, up to a limit.                 *)
DirectedEdges(n, pred, reverse, limit) ==
    LET rows == Sorted(IF reverse THEN Incoming(db, {pred}, n) ELSE Outgoing(db, {pred}, n))
        cap  == Clamp(limit, 1, 1000)
    IN  [edges |-> SubSeq(rows, 1, Min({cap, Len(rows)})), truncated |-> Len(rows) > cap]
Directed == Idle /\ \E n \in db.nodes, limit \in Args.limits,
               q \in {<<"inherits", TRUE>>, <<"inherits", FALSE>>, <<"imports", TRUE>>, <<"tested_by", FALSE>>} :
    Returns([tool |-> "directed", root |-> n, pred |-> q[1], reverse |-> q[2],
             of |-> DirectedEdges(n, q[1], q[2], limit)])
(* With a relation named only that one is followed, otherwise all of them. *)
FrameworkEdges == Idle /\ \E n \in db.nodes, reverse \in BOOLEAN, limit \in Args.limits,
                     wanted \in {{p} : p \in FrameworkPredicates} \cup {FrameworkPredicates} :
    Returns([tool |-> "framework", root |-> n,
             of |-> [p \in wanted |-> DirectedEdges(n, p, reverse, limit)]])

(* Tiers of an edge's weight; the profile counts them per predicate.       *)
Tier(w) == IF w >= 100 THEN "extracted" ELSE IF w >= 61 THEN "inferred" ELSE "ambiguous"
ConfidenceProfile ==
    Returns([tool |-> "confidence",
             of |-> [p \in {e.p : e \in db.edges} |->
                       [t \in {"extracted", "inferred", "ambiguous"} |->
                          Cardinality({e \in db.edges : e.p = p /\ Tier(e.w) = t})]]])

(* Entry points: symbols nothing calls that call something, those with     *)
(* most calls first.                                                       *)
Orient == Idle /\ \E limit \in Args.limits :
    LET entries == {n \in db.nodes : Outgoing(db, {"calls"}, n) # {} /\ Incoming(db, {"calls"}, n) = {}}
        Calls(n) == Cardinality(Outgoing(db, {"calls"}, n))
        ranked  == InOrderOf(entries, LAMBDA m, n : Calls(m) > Calls(n)
                                                     \/ (Calls(m) = Calls(n) /\ m < n))
    IN  Returns([tool |-> "orient", entries |-> Cardinality(db.nodes),
                 of |-> SubSeq(ranked, 1, Min({Clamp(limit, 1, 50), Len(ranked)}))])

(* Slices, exact answers and neighbourhoods, and payloads cut to a budget. *)
Slices == Idle /\ \E seed \in db.nodes, relation \in DOMAIN Relations, q \in Args.slices, rows \in Args.rows :
    Returns([tool |-> "slices", root |-> seed, relation |-> relation, q |-> q,
             of |-> AnswerSlices(db, seed, relation, q.depth, q.cap, rows, Args.cost, q.budget)])
Exact == Idle /\ \E symbols \in ResolveExact(db),
            kind \in {"impact", "callers", "callees", "tests_for"}, depth \in Args.depths :
    Returns([tool |-> "exact", kind |-> kind, depth |-> depth,
             of |-> AnswerExact(db, kind, symbols, depth, Sorted(db.nodes))])
Provenance == Idle /\ \E seeds \in kSubset(1, db.nodes) \cup kSubset(2, db.nodes), q \in Args.slices :
    Returns([tool |-> "provenance", seeds |-> seeds, q |-> q,
             of |-> ProvenanceBounded(db, seeds, q.depth, q.cap),
             near |-> FixedNeighbourhood(db, seeds, q.depth, q.cap)])
ReviewOfSymbol == Idle /\ \E n \in db.nodes, q \in Args.slices :
    Returns([tool |-> "review_context", root |-> n, q |-> q,
             of |-> ReviewContext(db, n, q.depth, Sorted(db.nodes), Args.cost, q.budget)])
Ranked == Idle /\ \E n \in db.nodes, q \in Args.slices, limit \in Args.limits :
    Returns([tool |-> "impact_radius", root |-> n, q |-> q, limit |-> limit,
             of |-> ImpactRadius(db, n, q.depth, Sorted(db.nodes), Args.cost, limit)])
Budgeted == Once("budget") /\ \E p \in Args.payloads, budget \in Args.budgets :
    Returns([tool |-> "budgeted", payload |-> p, budget |-> budget, of |-> ApplyBudget(p, budget)])

GraphTools ==
    \/ Slices \/ Exact \/ Provenance \/ ReviewOfSymbol \/ Ranked \/ Budgeted
    \/ Impact \/ ImpactOfFile \/ Flow \/ Chained \/ FlowCriticality \/ FreeTraversal
    \/ Hubs \/ Dead \/ Large \/ Coupling \/ Gaps \/ Overview \/ Community \/ CommunitySweep \/ CommunitySplit
    \/ Directed \/ FrameworkEdges \/ ConfidenceProfile \/ Orient

(***************************************************************************)
(* The tools and commands around a change: snapshots and their difference, *)
(* listings of a working copy, risk, questions, refactorings and renames.  *)
(***************************************************************************)
Compared == Once("diff") /\ \E b \in Args.revisions, a \in Args.revisions, q \in Args.snapshots :
    \E before \in {Snapshot(b, q.before, q.res, 100)}, after \in {Snapshot(a, q.after, q.res, q.maxNodes)} :
        Returns([tool |-> "diff", before |-> before, after |-> after,
                 of |-> DiffSnapshots(before, after), back |-> DiffSnapshots(after, before)])
SnapshotRead == Once("copies") /\ \E f \in Args.snapshotFiles :
    Returns([tool |-> "snapshot_file", file |-> f, of |-> LoadSnapshot(f)])
Listed == Once("copies") /\ \E files \in Args.copies, subs \in Args.submodules, submodules \in BOOLEAN, cap \in {1, 9} :
    LET Of(vcs) == WorkingCopy([vcs |-> vcs, files |-> files, subs |-> subs], submodules, cap)
    IN  Returns([tool |-> "listed", files |-> files, subs |-> subs, submodules |-> submodules, cap |-> cap,
                 git |-> Of("git"), svn |-> Of("svn")])
Churned == Once("copies") /\ \E commits \in Args.histories, window \in {1, 9} :
    Returns([tool |-> "churn", commits |-> commits, window |-> window, of |-> FileChurn(commits, window)])
Measured == Once("copies") /\ \E commits \in Args.histories, support \in {1, 2}, seeds \in {1, 9} :
    Returns([tool |-> "cochange", commits |-> commits, support |-> support,
                     of |-> MeasureAgainstCochange(db, commits, 3, support, seeds, 3)])

RiskOfChange ==
    LET v    == View
        comm == Assignment(v, 4)
    IN  \E files \in Args.changed, churn \in Args.churn, limit \in Args.limits :
          Returns([tool |-> "risk", view |-> v, files |-> files, churn |-> churn, limit |-> limit,
                   of |-> ChangeRisk(v, comm, files, {}, churn, limit)])
Questions ==
    LET v    == View
        comm == Assignment(v, 4)
    IN  \E perCategory \in {1, 5}, limit \in Args.limits :
          Returns([tool |-> "questions", view |-> v, cap |-> perCategory, limit |-> limit,
                   of |-> ReviewQuestions(v, comm, perCategory, limit)])
Refactorings == Idle /\ \E res \in Args.resolutions, limit \in Args.limits :
    \E v \in {View} : \E comm \in {Assignment(v, res)} :
        Returns([tool |-> "refactor", view |-> v, comm |-> comm, limit |-> limit,
                 of |-> RefactorSuggestions(v, Structural, comm, 5, limit)])

(* Between the preview and the writing somebody may save one file.         *)
MaskedText == Once("texts") /\ \E lang \in DOMAIN Args.texts : \E text \in Args.texts[lang] :
    Returns([tool |-> "mask", text |-> text, profile |-> Profiles[lang], of |-> Masked(text, Profiles[lang], 1)])
Rename == Once("rename") /\ \E q \in Args.renames, symbol \in Args.symbols, saved \in Args.saved, confirm \in BOOLEAN, dryRun \in BOOLEAN :
    LET targets == ResolveTarget(q.view, symbol)
        preview == PreviewRename(q.view, CHOOSE n \in targets : TRUE, q.repo, q.maxFiles)
        now     == [f \in DOMAIN q.repo |-> IF f = saved.file THEN [q.repo[f] EXCEPT !.text = saved.text] ELSE q.repo[f]]
    IN  /\ Cardinality(targets) = 1
        /\ Returns([tool |-> "rename", view |-> q.view, repo |-> q.repo, now |-> now, preview |-> preview,
                    write |-> confirm /\ ~dryRun, of |-> ApplyRename(preview, now, confirm, dryRun)])

ReviewNext == \/ Compared \/ SnapshotRead \/ Listed \/ Churned \/ Measured \/ RiskOfChange \/ Questions \/ Refactorings
              \/ MaskedText \/ Rename

(***************************************************************************)
(* The search tools and commands, and what their answers mean.             *)
(***************************************************************************)
SearchKeyword == Once("search") /\ \E st \in Args.stores, q \in Args.queries, limit \in {1, 2}, source \in {0, 1} :
    Returns([tool |-> "keyword", store |-> st, tokens |-> q.tokens, limit |-> limit, source |-> source,
             of |-> Keyword(st, q.tokens, limit, source)])
SearchFullText == Once("search") /\ \E st \in Args.stores, q \in Args.queries, limit \in {1, 3} :
    Returns([tool |-> "fts", store |-> st, tokens |-> q.tokens, limit |-> limit,
             of |-> IF Refused(q.tokens) THEN [error |-> TRUE] ELSE [error |-> FALSE, results |-> FullText(st, q.tokens, limit)]])
(* dkg search --mode hybrid --source, dkg.search                           *)
SearchHybrid == Once("search") /\ \E st \in Args.stores, q \in Args.queries, limit \in {1, 2}, source \in {0, 1},
                          vector \in Args.vectors, rerank \in Args.reranks :
    Returns([tool |-> "hybrid", store |-> st, q |-> q, limit |-> limit, source |-> source, rerank |-> rerank,
             vector |-> vector, of |-> Hybrid(st, q, limit, source, vector, rerank)])
SearchCode == Once("search") /\ \E st \in Args.stores, token \in {"parse", "and"}, limit \in {1, 9} :
    Returns([tool |-> "code_search", store |-> st, token |-> token, limit |-> limit, of |-> CodeSearch(st, token, limit)])
SearchRepos == Once("search") /\ \E repos \in Args.registries, q \in Args.queries, limit \in {1, 9}, perRepo \in {1, 9}, maxRepos \in {2, 50} :
    LET Search(rs) == SearchRegistered(rs, q.tokens, limit, perRepo, maxRepos)
    IN  Returns([tool |-> "repos", repos |-> repos, of |-> Search(repos), limit |-> limit,
                 without |-> [r \in DOMAIN repos |-> Search([repos EXCEPT ![r].state = "unreadable"])]])
(* The agents' review of contradictions; and of the same claims under      *)
(* other identities, as another ingest would have numbered them.           *)
Contradict == Once("claims") /\ \E claims \in Args.claims, comparisons \in {0, 1, 2, 50}, signals \in {1, 50} :
    Returns([tool |-> "contradictions", claims |-> claims, max |-> comparisons,
             of |-> ScanContradictions(Args.lexicon, claims, comparisons, signals),
             turned |-> ScanContradictions(Args.lexicon, Reverse(claims), comparisons, signals)])

SearchNext == Contradict \/ SearchKeyword \/ SearchFullText \/ SearchHybrid \/ SearchCode \/ SearchRepos

(* Without regard to the limits: which chunks an arm could ever return.    *)
Containing(st, tokens, source) ==
    {c \in DOMAIN st.chunk : /\ tokens # <<>> /\ \A i \in 1..Min({8, Len(tokens)}) : Lower(tokens[i]) \in st.chunk[c].parts
                             /\ source # 0 => st.chunk[c].source = source}
Position(s, c) == IF c \in ToSet(s) THEN CHOOSE i \in DOMAIN s : s[i] = c ELSE Len(s) + 1
(* As good in every arm and in the identifiers, and better in one.         *)
Dominates(f, c, d) ==
    /\ \A a \in DOMAIN f.arms : Position(f.arms[a], c) <= Position(f.arms[a], d)
    /\ f.share[c] >= f.share[d]
    /\ f.share[c] > f.share[d] \/ \E a \in DOMAIN f.arms : Position(f.arms[a], c) < Position(f.arms[a], d)
(* Every identifier names the entity the chunk starts at, alone there.     *)
SpelledOut(st, ids, c) ==
    /\ ids # <<>>
    /\ \E e \in DOMAIN st.entity :
         /\ st.entity[e].line > 0 /\ st.entity[e].line = st.chunk[c].line /\ st.entity[e].path = st.chunk[c].path
         /\ \A i \in DOMAIN ids : Matches(ids[i], st.entity[e].name)
         /\ \A f \in DOMAIN st.entity \ {e} :
               st.entity[f].name # st.entity[e].name /\ <<st.entity[f].path, st.entity[f].line>> # <<st.entity[e].path, st.entity[e].line>>

(* What a search leaves out, it leaves out for a reason.  Keyword search:  *)
(* every result contains every token and comes from the source asked for,  *)
(* and while the over-fetched rows hold every match, nothing better is     *)
(* left out.  Hybrid: each chunk once; no result precedes one that every   *)
(* arm and the identifiers put before it; a chunk whose name the query     *)
(* spells, in any case style, is a candidate though no arm contains it;    *)
(* the rerank admits nothing from behind its window and keeps a better     *)
(* score with as many identifiers ahead.  Registered repositories: one     *)
(* status each, and what one of them returns does not depend on whether    *)
(* another can be read.  (search/keyword.py, hybrid.py, identifiers.py,    *)
(* federated.py)                                                           *)
SearchSound ==
    /\ answer.tool = "keyword" =>
         LET all == Containing(answer.store, answer.tokens, answer.source)
             In(c) == Cardinality({i \in DOMAIN answer.tokens : Lower(answer.tokens[i]) \in answer.store.chunk[c].lead})
         IN  /\ IsInjective(answer.of) /\ ToSet(answer.of) \subseteq all
             /\ Len(answer.of) = Min({answer.limit, Cardinality(all)})
             /\ Cardinality(all) <= 3 * answer.limit => \A c \in all \ ToSet(answer.of), d \in ToSet(answer.of) : In(d) >= In(c)
    /\ answer.tool = "hybrid" /\ ~answer.of.error =>
         LET f   == answer.of.fused
             out == answer.of.results
             all == DOMAIN f.score
         IN  /\ IsInjective(out) /\ Len(out) = Min({answer.limit, Cardinality(all)})
             /\ \A c \in DOMAIN answer.store.chunk : SpelledOut(answer.store, f.ids, c) => c \in all /\ f.share[c] = Len(f.ids)
             /\ answer.rerank = <<>> => \A c, d \in all : Dominates(f, c, d) /\ d \in ToSet(out) => Position(out, c) < Position(out, d)
             /\ answer.rerank # <<>> =>
                  /\ \A c \in ToSet(out) : Position(f.order, c) <= 3 * answer.limit
                  /\ \A c, d \in ToSet(out) : answer.rerank[c] > answer.rerank[d] /\ f.share[c] >= f.share[d]
                                                => Position(out, c) < Position(out, d)
    /\ answer.tool = "repos" =>
         LET of == answer.of
             Of(res, r) == SelectSeq(res, LAMBDA x : x.repo # r)
         IN  /\ \A x \in ToSet(of.results) : of.statuses[x.repo].searched
             /\ of.truncated <=> Len(of.results) < of.total
             /\ ~of.truncated => \A r \in DOMAIN of.statuses : /\ answer.without[r].results = Of(of.results, r)
                                                              /\ DOMAIN answer.without[r].statuses = DOMAIN of.statuses
Comparable(lex, a, b) ==
    \/ <<a.subject, a.predicate>> = <<b.subject, b.predicate>>
    \/ /\ IdentifiersOf(lex, a) = IdentifiersOf(lex, b)
       /\ {} \notin {Topic(lex, a), Topic(lex, b)} /\ TopicsPair(Topic(lex, a), Topic(lex, b))
(* A scan for contradictions that does not say it was cut reports exactly  *)
(* the comparable pairs that conflict, each once, whatever the identities  *)
(* of the claims; one that was cut reports some of them; and it compares   *)
(* no more often than it may.  (evidence/contradiction.py: candidates are  *)
(* read off an index at one word of each claim, from both ends.)           *)
EvidenceSound ==
    answer.tool = "contradictions" =>
        LET cs  == answer.claims
            all == {q \in kSubset(2, DOMAIN cs) :
                      LET a == cs[Min(q)]
                          b == cs[Max(q)]
                      IN  Comparable(Args.lexicon, a, b) /\ CompareClaims(Args.lexicon, a, b) >= 5}
            said == {{p[1], p[2]} : p \in ToSet(answer.of.signals)}
            Mirror(p) == <<Len(cs) + 1 - p[1], Len(cs) + 1 - p[2]>>
        IN  /\ answer.of.comparisons <= answer.max
            /\ said \subseteq all /\ Cardinality(said) = Len(answer.of.signals)
            /\ ~answer.of.truncated => said = all
            /\ ~answer.of.truncated /\ ~answer.turned.truncated
                 => answer.of.signals = [i \in DOMAIN answer.turned.signals |-> Mirror(answer.turned.signals[i])]
=============================================================================
