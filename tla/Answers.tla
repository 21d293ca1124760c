------------------------------ MODULE Answers -------------------------------
(***************************************************************************)
(* What the answers of the read-only tools mean, stated without the        *)
(* algorithms that compute them.                                           *)
(***************************************************************************)
EXTENDS Intake

Next == IntakeNext \/ ReportNext \/ SourceNext \/ CatalogueNext \/ SearchNext \/ GraphTools \/ ReviewNext
Spec == Init /\ [][Next]_vars

(* Reachability along edges: the nodes at most d steps from S.             *)
RECURSIVE Within(_, _, _)
Within(succ, S, d) == IF d = 0 THEN S
                      ELSE Within(succ, S \cup UNION {succ[n] : n \in S}, d - 1)
Reach(succ, n) == Within(succ, {n}, Cardinality(DOMAIN succ))

Callees   == [n \in db.nodes |-> Outgoing(db, {"calls"}, n)]
Dependents == [n \in db.nodes |-> Incoming(db, ImpactPredicates, n)]
Along(q) == [n \in db.nodes |->
               (IF q.direction = "in" THEN {} ELSE Outgoing(db, q.preds, n))
               \cup (IF q.direction = "out" THEN {} ELSE Incoming(db, q.preds, n))]

(* The nodes whose rows one query returns all of, and the steps that start *)
(* at such a node: a walk may miss the others.                             *)
WholeInto(preds) == {n \in db.nodes : Cardinality(RowsInto(db, preds, n)) <= db.rows}
WholeOutOf(preds) == {n \in db.nodes : Cardinality(RowsOutOf(db, preds, n)) <= db.rows}
WholeAlong(q) == (IF q.direction = "in" THEN db.nodes ELSE WholeOutOf(q.preds))
                 \cap (IF q.direction = "out" THEN db.nodes ELSE WholeInto(q.preds))
From(succ, whole) == [n \in DOMAIN succ |-> IF n \in whole THEN succ[n] ELSE {}]
Covers(found, succ, whole, S, depth) ==
    /\ found \subseteq Within(succ, S, depth)
    /\ Within(From(succ, whole), S, depth) \subseteq found

(* A bounded walk finds everything within its depth, but for what the row  *)
(* limit of a query cut; or it says that it did not, which is so, and then *)
(* has exactly as many nodes as its cap allows.                            *)
FindsAll(found, flag, succ, whole, root, depth, cap) ==
    LET all == Within(succ, {root}, depth) \ {root}
    IN  /\ found \subseteq all
        /\ ~flag => Covers(found \cup {root}, succ, whole, {root}, depth)
        /\ flag => found # all /\ Cardinality(found) = cap - 1

Own(f) == {n \in db.nodes : db.file[n] = f}
OfSiblings(f) == {n \in db.nodes : <<f, db.file[n]>> \in db.like}
(* What depends on a file: no symbol of it is listed, nor of a file whose  *)
(* path its pattern matches, and of what depends on its own symbols only   *)
(* the latter and what a row limit cut may be missing.                     *)
DependsOnFiles(found, files, depth) ==
    /\ found \subseteq UNION {Within(Dependents, Own(f) \cup OfSiblings(f), depth) \ Own(f) : f \in files}
    /\ UNION {Within(From(Dependents, WholeInto(ImpactPredicates)), Own(f), depth)
                 \ (Own(f) \cup OfSiblings(f)) : f \in files} \subseteq found

(* Impact and flow list the symbols within the depth; the flag is set when *)
(* the node cap kept one of them out, and without it only what lies behind *)
(* a symbol with more relationships than one query returns (db.rows) can   *)
(* be missing; a free traversal stays within its token budget (the root    *)
(* apart), returns every node at its distance when it went breadth first,  *)
(* and misses a node only for such a row limit or when one of its three    *)
(* bounds is reported as reached.  (code/impact.py blast_radius,           *)
(* code/flow.py execution_flow, code/criticality.py traverse: nodes are    *)
(* marked when queued, and lists that the caps cut are flagged.)           *)
WalksBounded ==
    /\ answer.tool = "impact" =>
         FindsAll(answer.of.impacted, answer.of.truncated, Dependents, WholeInto(ImpactPredicates),
                  answer.root, answer.depth, answer.cap)
    /\ answer.tool = "impact_of_file" => DependsOnFiles(answer.of, {answer.path}, answer.depth)
    /\ answer.tool = "flow" =>
         FindsAll(answer.of.reached, answer.of.truncated, Callees, WholeOutOf({"calls"}),
                  answer.root, answer.depth, Clamp(answer.cap, 1, 5000))
    /\ answer.tool = "traverse" =>
         LET of   == answer.of
             q    == answer.q
             succ == Along(q)
             sure == From(succ, WholeAlong(q))
             got  == DOMAIN of.dist
             spent == MapThenSumSet(LAMBDA n : q.cost[n], got)
         IN  /\ got \subseteq Within(succ, {answer.root}, q.depth)
             /\ spent = of.tokens /\ (spent <= q.budget \/ got = {answer.root})
             /\ q.order = "breadth" => \A n \in got :
                    /\ n \in Within(succ, {answer.root}, of.dist[n])
                    /\ of.dist[n] > 0 => n \notin Within(sure, {answer.root}, of.dist[n] - 1)
             /\ ~(Reach(sure, answer.root) \subseteq got) => of.hitDepth \/ of.hitNodes \/ of.hitTokens
             /\ (q.order = "breadth" /\ ~of.hitNodes /\ ~of.hitTokens)
                  => Covers(got, succ, WholeAlong(q), {answer.root}, q.depth)

(* Simple call paths from a root that cannot be extended, or are one edge  *)
(* longer than the depth.                                                  *)
RECURSIVE Extend(_, _)
Extend(paths, depth) ==
    LET Open(p) == IF Len(p) > depth THEN {} ELSE Callees[Last(p)] \ ToSet(p)
        longer  == UNION {{Append(p, n) : n \in Open(p)} : p \in paths}
    IN  {p \in paths : Open(p) = {}} \cup (IF longer = {} THEN {} ELSE Extend(longer, depth))

(* The chains of an execution flow are the maximal simple call paths, each *)
(* once, and the flag is set exactly when some were left out; the paths    *)
(* criticality scores are the same set when none of its caps bites, are    *)
(* always distinct call paths, and the flag covers the node cap.  Where a  *)
(* symbol has more callees than one query returns, both list every maximal *)
(* path that does not pass it.  (Two separate enumerations: flow.py        *)
(* `_enumerate_chains`, criticality.py.)                                   *)
Unpassed(paths) == {p \in paths : ToSet(p) \subseteq WholeOutOf({"calls"})}
ChainsExact ==
    /\ answer.tool \in {"chains", "criticality"} =>
         \A p \in ToSet(IF answer.tool = "chains" THEN answer.of.chains ELSE answer.of.paths) :
            /\ p[1] = answer.root /\ IsInjective(p)
            /\ \A i \in 2..Len(p) : p[i] \in Callees[p[i - 1]]
    /\ answer.tool = "chains" =>
         LET all == Extend({<<answer.root>>}, answer.depth)
         IN  /\ IsInjective(answer.of.chains) /\ IsInjective(answer.paths.paths)
             /\ Unpassed(all) \subseteq ToSet(answer.paths.paths)
             /\ Unpassed(all) \subseteq ToSet(answer.of.chains) \/ answer.of.chainsTruncated
             /\ answer.of.chainsTruncated => Len(answer.of.chains) = answer.cap
             /\ Unpassed(all) = all =>
                  /\ ToSet(answer.paths.paths) = all
                  /\ ToSet(answer.of.chains) \subseteq all
                  /\ answer.of.chainsTruncated <=> ToSet(answer.of.chains) # all
                  /\ Len(answer.of.chains) = Min({answer.cap, Cardinality(all)})
    /\ answer.tool = "criticality" =>
         LET all == Extend({<<answer.root>>}, answer.depth)
         IN  /\ IsInjective(answer.of.paths)
             /\ Len(answer.of.paths) < answer.maxPaths /\ ~answer.of.truncated
                  => /\ Unpassed(all) \subseteq ToSet(answer.of.paths)
                     /\ Unpassed(all) = all => ToSet(answer.of.paths) = all

(* Every walk of the call graph: bounded ones say what their caps left     *)
(* out, and enumerated ones agree with each other.                         *)
WalksComplete == WalksBounded /\ ChainsExact

(* Undirected structure of the view an answer was computed from.           *)
Adj == Undirected(answer.view, Structural)
Minus(adj, S) == [n \in DOMAIN adj \ S |-> adj[n] \ S]
Pieces(adj) == {Reach(adj, n) : n \in DOMAIN adj}
Without2(adj, q) == [n \in DOMAIN adj |-> IF n \in q THEN adj[n] \ q ELSE adj[n]]
RECURSIVE ShortestPaths(_, _, _, _)
ShortestPaths(adj, paths, t, fuel) ==
    IF \E p \in paths : Last(p) = t THEN {p \in paths : Last(p) = t}
    ELSE IF fuel = 0 THEN {}
    ELSE ShortestPaths(adj, UNION {{Append(p, n) : n \in adj[Last(p)] \ ToSet(p)} : p \in paths},
                       t, fuel - 1)
PathsBetween(adj, s, t) == ShortestPaths(adj, {<<s>>}, t, Cardinality(DOMAIN adj))
(* Times Unit: the share of the shortest paths from s to t through n, for  *)
(* the sources s.                                                          *)
Through(adj, sources, n) ==
    LET others == DOMAIN adj \ {n}
        Share(q) == LET ps == PathsBetween(adj, q[1], q[2])
                    IN  IF ps = {} THEN 0
                        ELSE (Unit * Cardinality({p \in ps : n \in ToSet(p)})) \div Cardinality(ps)
    IN  MapThenSumSet(Share, {q \in (others \cap sources) \X others : q[1] # q[2]})

(* A list that was cut holds as many of what was found as the limit lets   *)
(* it, no two alike, beside the count of all.                              *)
CutList(list, found, total, limit) ==
    /\ ToSet(list) \subseteq found /\ IsInjective(list)
    /\ total = Cardinality(found) /\ Len(list) = Min({limit, total})

(* The single-pass algorithms agree with the definitions: components are   *)
(* the reachability classes; a cut point is a node, and a bridge an edge,  *)
(* whose removal leaves more components; betweenness counts shares of      *)
(* shortest paths from every node, or is the estimate from at most so many *)
(* sources in a graph too large for that, and says which; the              *)
(* architecture's cycles are the classes of two or more components that    *)
(* reach each other, each raised as a warning before any other kind.  What *)
(* a limit cut is counted, and no listed cut point, candidate or cycle     *)
(* counts for less than one that is not.  (code/centrality.py,             *)
(* code/architecture.py: explicit stacks that a test of a few graphs       *)
(* hardly exercises; lists cut after they were sorted.)                    *)
MeasuresExact ==
    /\ answer.tool = "hubs" =>
         LET of   == answer.of
             N    == Cardinality(DOMAIN Adj)
             cuts == {n \in DOMAIN Adj : Cardinality(Pieces(Minus(Adj, {n}))) > Cardinality(Pieces(Adj) \ {{n}})}
             most == answer.view.sweeps
         IN
         /\ of.components = Pieces(Adj)
         /\ CutList(of.cuts, cuts, of.totals.cuts, answer.limit)
         /\ \A i \in DOMAIN of.cuts : \A n \in cuts \ ToSet(of.cuts) : of.betweenness[of.cuts[i]] >= of.betweenness[n]
         /\ CutList([i \in DOMAIN of.bridges |-> {of.bridges[i][1], of.bridges[i][2]}],
                    {q \in Pairs(answer.view, Structural) :
                        Cardinality(Pieces(Without2(Adj, q))) > Cardinality(Pieces(Adj))},
                    of.totals.bridges, answer.limit)
         /\ CutList(of.chokepoints, {n \in cuts : of.betweenness[n] > 0 /\ \A m \in DOMAIN Adj :
                                                     4 * of.betweenness[n] >= of.betweenness[m]},
                    of.totals.chokepoints, answer.limit)
         /\ N >= 3 => \A n \in DOMAIN Adj :
               Cardinality(of.sources) * of.betweenness[n] = N * Through(Adj, of.sources, n)
         /\ of.sampled <=> N > most.exact
         /\ IF of.sampled THEN Cardinality(of.sources) <= most.budget ELSE of.sources = DOMAIN Adj
         /\ ~answer.view.truncated <=> answer.view.edges = db.edges /\ answer.view.nodes = db.nodes
    /\ answer.tool = "architecture" =>
         LET succ == [c \in answer.of.components |->
                        {q[2] : q \in {r \in answer.of.between : r[1] = c}}]
             Mutual(c) == {d \in Reach(succ, c) : c \in Reach(succ, d)}
             of     == answer.of
             cycles == {S \in {Mutual(c) : c \in DOMAIN succ} : Cardinality(S) > 1}
         IN  /\ CutList(of.cycles, cycles, of.totals.cycles, answer.limit)
             /\ \A i \in DOMAIN of.cycles : \A g \in cycles \ ToSet(of.cycles) : Cardinality(of.cycles[i]) >= Cardinality(g)
             /\ Len(of.warnings) = Min({answer.limit, of.totals.warnings}) /\ of.totals.warnings >= Cardinality(cycles)
             /\ \A i \in DOMAIN of.warnings : of.warnings[i][1] = "dependency_cycle" <=> i <= Cardinality(cycles)
             /\ \A i \in DOMAIN of.warnings : i <= Cardinality(cycles) => of.warnings[i][2] \in cycles
             /\ answer.diagram.cycle \cup answer.diagram.plain = ToSet(of.shown)
             /\ of.totals.cycles = Len(of.cycles) => answer.diagram.cycle = ToSet(of.shown) \cap UNION cycles

Classes(comm) == {{n \in DOMAIN comm : comm[n] = c} : c \in {comm[n] : n \in DOMAIN comm}}
Finer(c, d) == \A P \in Classes(c) : \E Q \in Classes(d) : P \subseteq Q

(* Communities: the refinement leaves every community connected and never  *)
(* joins what the base pass at its resolution kept apart; a split only     *)
(* ever divides communities, is made only where it raises the modularity   *)
(* of the whole partition, and gives every part a label of its own.        *)
(* (ariadne/detector.py `_refine`; graph/split.py: labels are made up from *)
(* the highest label at hand, across rounds.)                              *)
ExportSound(g, most, degree, groups) ==
    LET comm  == DetectCommunities(g.nodes, [q \in {{e.s, e.o} : e \in g.edges} |->
                                               MapThenSumSet(LAMBDA e : e.w, {e \in g.edges : {e.s, e.o} = q})], 4)
        named == {i \in DOMAIN groups : groups[i].folded = 0}
    IN  /\ \A n \in g.nodes : Cardinality({i \in DOMAIN groups : n \in groups[i].members}) = 1
        /\ {groups[i].members : i \in named} \subseteq Classes(comm) /\ Len(groups) <= most
        /\ Cardinality(named) + FoldFunction(LAMBDA x, t : x.folded + t, 0, groups) = Cardinality(Classes(comm))
        /\ \A P \in Classes(comm) : (\A i \in named : groups[i].members # P) =>
              \A i \in named : Cardinality(groups[i].members) >= Cardinality(P)
        /\ \A i, j \in named : i < j => Cardinality(groups[i].members) >= Cardinality(groups[j].members)
        /\ MapThenSumSet(LAMBDA n : degree[n], g.nodes) = 2 * Cardinality(g.edges) - Cardinality({e \in g.edges : e.s = e.o})
VaultSound(before, g, of) ==
    LET written == {of.map[n] : n \in g.nodes}
        Outgoing1(n) == {<<e.p, of.map[e.o]>> : e \in {x \in g.edges : x.s = n}}
        Alone(n) == \A m \in g.nodes : of.map[m] = of.map[n] => m = n
    IN  /\ \A k \in written : \A l \in of.notes[k].links : l[2] \in written
        /\ \A n \in g.nodes : Alone(n) => of.notes[of.map[n]] = [of |-> n, links |-> Outgoing1(n)]
        /\ \A k \in DOMAIN of.notes \ written : k \in DOMAIN before /\ of.notes[k] = before[k]
        /\ \A k \in DOMAIN before : k \in DOMAIN of.notes
CommunitiesSound ==
    /\ answer.tool = "vault" => VaultSound(answer.before, answer.graph, answer.of)
    /\ answer.tool = "export" => ExportSound(answer.graph, answer.most, answer.degree, answer.of)
    /\ answer.tool = "community" =>
         /\ \A P \in Classes(answer.both.refined) :
               \A n \in P : Reach([m \in P |-> Near(db, {e.p : e \in db.edges}, m) \cap P], n) = P
         /\ Finer(answer.both.refined, answer.both.base)
         /\ Modularity(Graph(Related, Weights), answer.both.refined, answer.res)
              >= Modularity(Graph(Related, Weights), answer.both.base, answer.res)
    /\ answer.tool = "sweep" => \A r \in ToSet(ResolutionSweep) :
         Modularity(Graph(Related, Weights), answer.of, 4)
           >= Modularity(Graph(Related, Weights), DetectCommunities(Related, Weights, r), 4)
    /\ answer.tool = "split" =>
         /\ Finer(answer.of.comm, answer.before)
         /\ Cardinality(Classes(answer.of.comm)) =
              Cardinality({answer.of.comm[n] : n \in Related})
         /\ answer.of.comm # answer.before =>
              Modularity(Graph(Related, Weights), answer.of.comm, answer.res)
                > Modularity(Graph(Related, Weights), answer.before, answer.res)
         /\ \A P \in Classes(answer.before) : answer.before[Min(P)] \notin answer.of.split
              => P \in Classes(answer.of.comm)

(* Dead code and the traversals look at the same edges from two ends: a    *)
(* candidate is in no other symbol's flow, nothing depends on it, and what *)
(* orientation offers as an entry point is in nobody's flow either.        *)
(* (code/deadcode.py, code/flow.py, code/impact.py, mcp/tools.py _orient)  *)
DeadIsUnreached ==
    /\ answer.tool = "dead" =>
         LET of == answer.of
             unused == {n \in of.considered : \A e \in EdgesFor(answer.view, Structural) : e.o # n}
         IN  /\ of.count + of.excluded = Cardinality(unused) /\ IsInjective(of.candidates)
             /\ Len(of.candidates) = Min({answer.limit, of.count}) /\ Len(of.entries) = Min({answer.limit, of.excluded})
             /\ ToSet(of.candidates) \cap ToSet(of.entries) = {}
             /\ \A i \in DOMAIN of.candidates : \A n \in unused \ ToSet(of.candidates) :
                   answer.view.lines[n] > answer.view.lines[of.candidates[i]] => IsEntryPoint(answer.view, n)
    /\ answer.tool = "dead" /\ ~answer.view.truncated => \A n \in ToSet(answer.of.candidates) :
         /\ \A m \in db.nodes \ {n} : n \notin ExecutionFlow(db, m, 20, 5000, 1, Sorted(db.nodes)).reached
         /\ BlastRadius(db, n, 10, 5000, Sorted(db.nodes)).impacted \subseteq {n}
    /\ answer.tool = "orient" => \A i \in DOMAIN answer.of : \A m \in db.nodes :
         answer.of[i] \notin ExecutionFlow(db, m, 20, 5000, 1, Sorted(db.nodes)).reached

(* What is said of the structure: the measures, and what is dead.          *)
StructureExact == MeasuresExact /\ DeadIsUnreached

(* Context is what it says it is: slices hold everything within the depth  *)
(* unless the cap is reported, each at its distance, and are packed so     *)
(* that the seed stays and nothing that fits is left out; exact answers,   *)
(* the impact radius and a review's callers agree with them (a review      *)
(* leaves out callers for its budget alone); what provenance gathers has a *)
(* path to a seed, is all of it when no cap bites, and is near; a payload  *)
(* that is cut keeps an entry of each list, cuts the longest first, and    *)
(* reports at least its size.  (context/slices.py, exact.py,               *)
(* provenance.py, pack.py; mcp/tools.py _review_context, _impact_radius.)  *)
ContextSound ==
    /\ answer.tool = "slices" =>
         LET of   == answer.of
             r    == Relations[answer.relation]
             succ == [n \in db.nodes |-> (IF "in" \in r.way THEN Incoming(db, r.preds, n) ELSE {})
                                         \cup (IF "out" \in r.way THEN Outgoing(db, r.preds, n) ELSE {})]
             whole == (IF "in" \in r.way THEN WholeInto(r.preds) ELSE db.nodes)
                      \cap (IF "out" \in r.way THEN WholeOutOf(r.preds) ELSE db.nodes)
         IN  /\ FindsAll(of.matched \ {answer.root}, of.truncated, succ, whole, answer.root, answer.q.depth, answer.q.cap)
             /\ \A n \in of.matched \ {answer.root} :
                   n \notin Within(From(succ, whole), {answer.root}, of.dist[n] - 1)
             /\ ToSet(of.slices) \cap of.omitted = {}
             /\ PackedWell(of.matched, ToSet(of.slices), {answer.root}, Args.cost, answer.q.budget)
    /\ answer.tool = "exact" =>
         LET root == CHOOSE n \in answer.of.candidates : TRUE
         IN  IF ~answer.of.resolved THEN Cardinality(answer.of.candidates) # 1 /\ answer.of.found = {}
             ELSE /\ answer.kind = "impact" => FindsAll(answer.of.found, answer.of.truncated, Dependents,
                                                        WholeInto(ImpactPredicates), root, answer.depth, 500)
                  /\ answer.kind \in {"callers", "callees"} =>
                       LET near == AnswerSlices(db, root, answer.kind, 1, 500, Sorted(db.nodes), Args.cost, 0).matched
                       IN  /\ near \ {root} \subseteq answer.of.found
                           /\ root \in WholeInto({"calls"}) \cap WholeOutOf({"calls"}) => answer.of.found \subseteq near
    /\ answer.tool = "provenance" =>
         LET all == Within(Dependents, answer.seeds, answer.q.depth)
         IN  /\ answer.seeds \subseteq answer.of /\ answer.of \subseteq all
             /\ Cardinality(answer.of \ answer.seeds) <= answer.q.cap
             /\ Cardinality(answer.of \ answer.seeds) < answer.q.cap => answer.of = all
             /\ Cardinality(answer.near) < answer.q.cap => answer.of \subseteq answer.near
    /\ answer.tool = "review_context" =>
         LET callers == [n \in db.nodes |-> Incoming(db, {"calls"}, n)]
         IN  /\ Covers(answer.of.callers \cup answer.of.left \cup {answer.root}, callers, WholeInto({"calls"}),
                       {answer.root}, answer.q.depth)
             /\ answer.root \notin answer.of.callers \cup answer.of.left
             /\ answer.q.budget = 0 => ("no caller" \in answer.of.questions
                                          <=> Incoming(db, {"calls"}, answer.root) \subseteq {answer.root})
    /\ answer.tool = "impact_radius" =>
         /\ WholeInto(ImpactPredicates) = db.nodes => answer.of.total = Cardinality(BlastRadius(db, answer.root, answer.q.depth, 500, Sorted(db.nodes)).impacted)
         /\ IsInjective(answer.of.ranked) /\ (answer.of.cut <=> Len(answer.of.ranked) < answer.of.total)
    /\ answer.tool = "budgeted" =>
         LET of == answer.of
             p  == answer.payload
         IN  /\ \A l \in DOMAIN of.kept : of.kept[l] <= p.lists[l] /\ (p.lists[l] > 0 => of.kept[l] > 0)
             /\ of.dropped = {l \in DOMAIN of.kept : of.kept[l] < p.lists[l]}
             /\ \A l \in of.dropped, m \in DOMAIN of.kept : of.kept[m] <= of.kept[l] + 1
             /\ of.tokens >= PayloadSize(p, of.kept, of.dropped, IF of.reports THEN of.tokens ELSE -1)
             /\ answer.budget > 0 => (of.exceeded <=> of.tokens > answer.budget)
             /\ of.exceeded => of.tokens = answer.budget + 1 \/ \A l \in DOMAIN of.kept : of.kept[l] = 1

(***************************************************************************)
(* What the answers about a change mean, stated without the code that      *)
(* computes them.                                                          *)
(***************************************************************************)
(* Pairs of names that share a community.                                  *)
Together(comm, names) == {q \in SUBSET names : Cardinality(q) = 2 /\ \E c \in q : \A d \in q : comm[c] = comm[d]}
DiffSound(b, a, d, back) ==
    LET common == DOMAIN b.comm \cap DOMAIN a.comm
    IN  /\ (b.nodes \ d.of.removedNodes) \cup d.of.addedNodes = a.nodes
        /\ [k \in (DOMAIN b.edges \ d.of.removedEdges) \cup DOMAIN d.of.addedEdges |->
              CASE k \in DOMAIN d.of.addedEdges -> d.of.addedEdges[k]
                [] k \in DOMAIN d.of.changedEdges -> d.of.changedEdges[k][2]
                [] OTHER -> b.edges[k]] = a.edges
        /\ d.changed <=> <<b.nodes, b.edges, Together(b.comm, common)>> # <<a.nodes, a.edges, Together(a.comm, common)>>
        /\ d.changed = back.changed /\ d.of.addedNodes = back.of.removedNodes
        /\ \A c \in DOMAIN d.of.communities :
              /\ d.of.communities[c].gained = back.of.communities[c].lost
              /\ \A x \in d.of.communities[c].gained : c \in d.of.communities[x].gained
        /\ (b.truncated \/ a.truncated) => d.truncated

RiskSound(v, of, churn, limit) ==
    LET S     == Symbols(v)
        N     == Cardinality(S)
        m     == of.model
        starts == {e \in v.nodes : v.kind[e] \in EntryPointKinds \/ v.name[e] = "main" \/ Outgoing(v, {"routes_to", "dispatches"}, e) # {}}
        succ  == [n \in v.nodes |-> Outgoing(v, {"calls", "routes_to", "dispatches"}, n)]
        whole == IF N = 0 THEN 1 ELSE of.whole \div (100 * N)
    IN  /\ \A n \in S : m.reach[n] = Cardinality({e \in starts \ {n} : n \in Reach(succ, e)})
        /\ \A x, y \in S : (/\ m.callers[x] <= m.callers[y] /\ m.reach[x] <= m.reach[y] /\ m.crossing[x] <= m.crossing[y]
                            /\ (x \in m.untested => y \in m.untested) /\ (x \in m.named => y \in m.named))
                           => of.score[x] <= of.score[y]
        /\ \A n \in DOMAIN of.combined : /\ of.combined[n] >= whole * of.score[n] /\ of.combined[n] <= of.whole
                                         /\ DOMAIN churn = {} => of.combined[n] = whole * of.score[n]
        /\ N > 0 => \A i \in 1..4 : \E n \in S : of.score[n] = of.cuts[i]
        /\ \A n \in DOMAIN of.combined : LevelFor(of.score[n], of.cuts) <= of.level
        /\ \A i \in DOMAIN of.top : \A n \in DOMAIN of.combined \ ToSet(of.top) : of.combined[of.top[i]] >= of.combined[n]
        /\ Len(of.top) = Min({limit, Cardinality(DOMAIN of.combined)})

QuestionsSound(of, cap, limit) ==
    LET Subjects(c) == {q.subject : q \in {x \in of.asked : x.category = c}}
        Ends == UNION {{s[1], s[2]} : s \in Subjects("bridge") \cup Subjects("unexpected_coupling")}
    IN  /\ Subjects("chokepoint") \cap Subjects("hub") = {}
        /\ {s[1] : s \in Subjects("isolated")} \cap (Ends \cup {s[1] : s \in Subjects("hub")}) = {}
        /\ \A c \in DOMAIN CategoryWeights : Cardinality({q \in of.asked : q.category = c}) <= cap
        /\ Cardinality(of.selected) = Min({limit, Cardinality(of.asked)})
        /\ \A q \in of.asked : q.priority[1] >= 0 /\ ~Over(q.priority, <<CategoryWeights[q.category], 1>>)
        /\ \A q \in of.selected, r \in of.asked \ of.selected : ~Over(r.priority, q.priority)

RefactorSound(v, comm, of) ==
    LET Inside(c) == Cardinality({q \in Pairs(v, Structural) : Cardinality({c[n] : n \in q}) = 1})
        Of(k) == {s.subject : s \in {x \in of.all : x.kind = k}}
    IN  /\ \A s \in Of("move") : s[1] \in v.nodes /\ Inside([comm EXCEPT ![s[1]] = s[2]]) > Inside(comm)
        /\ \A s \in Of("merge") :
              Cardinality({q \in Pairs(v, Structural) : {comm[n] : n \in q} = {s[1], s[2]}}) >= 2
        /\ \A s \in of.all : s.strength[1] >= 0 /\ s.strength[1] <= s.strength[2]

(* A scanner that reads one piece at a time: what is it in after piece i?  *)
Scan(text, profile) ==
    LET Next1(st, p) ==
          CASE st = "line"   -> IF p = "nl" THEN "code" ELSE "line"
            [] st = "block"  -> IF p = "close" THEN "code" ELSE "block"
            [] st = "triple" -> IF p = "three" THEN "code" ELSE "triple"
            [] st \in {"quote", "tick"} -> IF p = "esc" THEN (IF st = "quote" THEN "quoteesc" ELSE "tickesc") ELSE IF p \in {st, "nl"} THEN "code" ELSE st
            [] st = "quoteesc"   -> "quote" [] st = "tickesc" -> "tick"
            [] st = "code"   -> IF p = "open" /\ profile.block THEN "block" ELSE IF p \in profile.line THEN "line"
                                ELSE IF p = "three" /\ profile.triple THEN "triple"
                                ELSE IF p \in profile.quotes THEN p ELSE "code"
    IN  FoldLeft(LAMBDA q, p : Append(q, Next1(Last(q), p)), <<"code">>, text)
MaskSound(text, profile, masked) ==
    \A i \in DOMAIN text : text[i] \in {"old", "older", "x"} => (i \in masked <=> Scan(text, profile)[i] # "code")

RenameSound(v, repo, now, preview, write, of) ==
    LET all == preview.applicable \cup preview.ambiguous \cup preview.commentary
    IN  /\ preview.applicable \cap (preview.ambiguous \cup preview.commentary) = {}
        /\ \A p \in preview.applicable :
              /\ Scan(repo[p[1]].text, Profiles[repo[p[1]].lang])[p[2]] = "code"
              /\ p[1] = v.file[preview.target] \/ \E e \in v.edges : e.o = preview.target /\ e.w >= InferredMin /\ v.file[e.s] = p[1]
              /\ \A n \in v.nodes : v.name[n] = v.name[preview.target] => n = preview.target
        /\ \A f \in DOMAIN repo : Readable(repo[f]) /\ f \notin preview.unreadable /\ ~preview.truncated /\ (\E n \in v.nodes : v.file[n] = f)
              => {i \in DOMAIN repo[f].text : repo[f].text[i] = "old"} = {p[2] : p \in {q \in all : q[1] = f}}
        /\ ~write => of.repo = now
        /\ \A f \in DOMAIN now : \A i \in DOMAIN now[f].text :
              of.repo[f].text[i] # now[f].text[i] => <<f, i>> \in preview.applicable /\ f \in of.written
        /\ write /\ ~of.error => \A p \in preview.applicable :
              now[p[1]].present /\ p[2] \in DOMAIN now[p[1]].text => of.repo[p[1]].text[p[2]] \notin {"old", "older"}

(* A report on a change.                                                   *)
RestoredSound(check, of) ==
    LET sound == of.prepared.status = "hit"
    IN  /\ check /\ of.incremental => sound /\ "db" \in of.files
        /\ sound => LET f == answer.cache.file
                    IN  f.opens /\ f.intact /\ RequiredTables \subseteq f.tables /\ f.schema = of.prepared.schema
        /\ check /\ of.prepared.status = "unusable" => of.files \subseteq answer.cache.rejects
        /\ ~check => of.files = answer.cache.files
EntriesSound(flows, changed, b) ==
    LET callers == [n \in db.nodes |-> Incoming(db, {"calls"}, n)]
        above   == UNION {Reach(callers, n) : n \in changed}
        read    == WholeOutOf({"calls"}) = db.nodes
        whole   == read /\ b.depth >= Cardinality(db.nodes) /\ b.nodes > Cardinality(db.edges) /\ Len(flows.entries) < b.entries
        Paths(e) == {p \in Extend({<<e>>}, 6) : Len(p) >= 2 /\ ToSet(p) \cap changed # {}}
        all     == UNION {Paths(e) : e \in {n \in above : callers[n] = {}}}
    IN  /\ ToSet(flows.entries) \subseteq above /\ IsInjective(flows.entries)
        /\ b.nodes > Cardinality(db.edges) /\ Len(flows.entries) < b.entries => \A n \in changed :
              (\E m \in Reach(callers, n) : callers[m] = {}) => Reach(callers, n) \cap ToSet(flows.entries) # {}
        /\ whole => ToSet(flows.entries) = {n \in above : callers[n] = {}} /\ flows.found = Cardinality(all)
        /\ read => \A i \in DOMAIN flows.rows : flows.rows[i].path \in UNION {Paths(e) : e \in ToSet(flows.entries)}
ReportSound(v, files, q, of, report, gate, gaps, comment) ==
    LET chosen == {n \in Symbols(v) : v.file[n] \in files}
        Level(n) == LevelFor(of.risk.score[n], of.risk.cuts)
        InFiles(n) == files = {} \/ v.file[n] \in files
        hot    == gaps.hotspots.rows
    IN  /\ \A n \in chosen \ ToSet(of.symbols) : \A i \in DOMAIN of.symbols : of.risk.score[of.symbols[i]] >= of.risk.score[n]
        /\ of.count = Cardinality(chosen) /\ (of.truncated => Len(of.symbols) < of.count)
        /\ \A i \in DOMAIN LevelNames : gate[LevelNames[i]].risk <=>
              i = 1 \/ (\E n \in chosen : Level(n) >= i) \/ (chosen = {} /\ \E j \in i..4 : of.risk.cuts[j] = 0)
        /\ DependsOnFiles(report.impacted, files, q.depth)
        /\ EntriesSound(of.flows, ToSet(of.risk.top), q.bounds)
        /\ {n \in hot : InFiles(n)} # {} /\ Cardinality(hot) <= q.top => ~comment.gaps.none
        /\ ToSet(comment.gaps.hotspots) \subseteq {n \in hot : InFiles(n)} /\ ToSet(comment.gaps.isolated) \subseteq gaps.isolated
        /\ \A n \in comment.symbols.covered : \E e \in v.edges : e.p = "tested_by" /\ n \in {e.s, e.o}
        /\ (comment.symbols.none <=> chosen = {}) /\ ~gate["off"].risk

(* What a reviewer is shown is so: a difference turns the one snapshot     *)
(* into the other, says changed exactly when they differ (communities by   *)
(* who is together, whatever the numbers), and reversed it is the reverse  *)
(* one; git and Subversion offer the same files up to those missing on     *)
(* disk; risk counts every entry point that reaches a symbol, never falls  *)
(* when a factor rises, and churn only raises it; questions and            *)
(* refactorings do not contradict each other; the mask of comments and     *)
(* strings is what a scanner finds, and a rename touches exactly what its  *)
(* preview called applicable, and nothing without confirmation.  A report  *)
(* builds on a restored database only when it is sound, shows no symbol    *)
(* before a riskier one, fails its gate at a level exactly when some       *)
(* symbol of the change, shown or not, is at that level, and follows       *)
(* exactly the flows through the change from uncalled entries when its     *)
(* bounds do not bite.  (code/diff.py, changes.py, cochange.py, risk.py,   *)
(* review.py, refactor.py, rename.py, report.py, pr_comment.py)            *)
ReviewSound ==
    /\ answer.tool = "restored" => RestoredSound(answer.check, answer.of)
    /\ answer.tool = "report" => ReportSound(answer.view, answer.files, answer.q, answer.of, answer.report, answer.gate, answer.gaps, answer.comment)
    /\ answer.tool = "diff" => DiffSound(answer.before, answer.after, answer.of, answer.back)
    /\ answer.tool = "snapshot_file" => (answer.of = "loaded" => answer.file.size <= MaxSnapshotBytes /\ answer.file.inside)
    /\ answer.tool = "listed" =>
         LET here == {n \in DOMAIN answer.files : answer.files[n].present}
             closed == {n \in DOMAIN answer.files : answer.files[n].sub # 0
                          /\ (~answer.submodules \/ ~answer.subs[answer.files[n].sub].initialised)}
         IN  /\ answer.svn \subseteq here /\ answer.git \cap closed = {}
             /\ answer.cap = 9 /\ (\A n \in DOMAIN answer.files : answer.files[n].sub = 0) => answer.svn = answer.git \cap here
    /\ answer.tool = "churn" => \A f \in DOMAIN answer.of : answer.of[f] \in 1..answer.window
    /\ answer.tool = "cochange" =>
         /\ answer.of.tp + answer.of.fp = answer.of.predictions
         /\ answer.of.usable => answer.of.tp + answer.of.fn > 0
         /\ \A a \in DOMAIN answer.of.truth : \A b \in answer.of.truth[a] :
               a # b /\ a \in answer.of.truth[b] /\ FileChurn(answer.commits, 500)[a] >= answer.support
    /\ answer.tool = "risk" => RiskSound(answer.view, answer.of, answer.churn, answer.limit)
    /\ answer.tool = "questions" => QuestionsSound(answer.of, answer.cap, answer.limit)
    /\ answer.tool = "refactor" => RefactorSound(answer.view, answer.comm, answer.of)
    /\ answer.tool = "mask" => MaskSound(answer.text, answer.profile, answer.of)
    /\ answer.tool = "rename" =>
         RenameSound(answer.view, answer.repo, answer.now, answer.preview, answer.write, answer.of)

(* What the derived tables say is what the graph says.  A flow starts at   *)
(* its entry, holds every node once, at its distance, and unless a bound   *)
(* cut it everything reachable; then a symbol lies on as many flows of     *)
(* others as entry points reach it, which is what the risk index counts.   *)
(* The flows a change affects are those with a step in a changed file, and *)
(* the other files are named; a list that does not say it was cut is all   *)
(* of them.  Summaries divide the symbols and count each edge once.  A run *)
(* that raises is not recorded, and a level is called applied only when    *)
(* its stages ran and their tables could be written.                       *)
(* (code/postprocess.py, code/catalogue.py)                                *)
FlowSound(v, b, f) ==
    LET succ == [n \in v.nodes |-> Children(v, n)]
        all  == Within(succ, {f.entry}, b.depth)
        on   == [i \in DOMAIN f.steps |-> f.steps[i][1]]
        D(n) == Min({d \in 0..Cardinality(v.nodes) : n \in Within(succ, {f.entry}, d)})
    IN  /\ on[1] = f.entry /\ IsInjective(on) /\ ToSet(on) \subseteq all
        /\ \A i \in DOMAIN f.steps : f.steps[i][2] = D(on[i]) /\ f.steps[i][2] <= f.depth
        /\ Len(f.steps) < b.steps => ToSet(on) = all
CatalogueOfFlows ==
    LET v    == answer.view
        rows == answer.stage.rows
        whole == \A f \in rows : Len(f.steps) < answer.b.steps /\ f.depth < answer.b.depth
        Hit(f) == \E n \in NodesOn(f.steps) : v.file[n] \in answer.files
        Entries(s) == [i \in DOMAIN s |-> s[i].entry]
    IN  /\ \A f \in rows : FlowSound(v, answer.b, f)
        /\ Cardinality(RiskEntries(v)) <= answer.b.flows => {f.entry : f \in rows} = {e \in RiskEntries(v) : Children(v, e) \ {e} # {}}
        /\ whole /\ Cardinality(RiskEntries(v)) <= answer.b.flows => \A n \in v.nodes :
              Cardinality({f \in rows : f.entry # n /\ n \in NodesOn(f.steps)}) = EntryPointReach(v)[n]
        /\ ToSet(answer.affected.flows) \subseteq {f \in rows : Hit(f)} /\ IsInjective(Entries(answer.affected.flows))
        /\ Len(answer.affected.flows) < answer.limit => ToSet(answer.affected.flows) = {f \in rows : Hit(f)}
        /\ rows # {} => answer.affected.inNoFlow = {p \in answer.files : \A f \in rows : \A n \in NodesOn(f.steps) : v.file[n] # p}
        /\ \A n \in v.nodes : Cardinality(answer.named[n]) <= 1
        /\ IsInjective(Entries(answer.flows.flows)) /\ (answer.flows.truncated <=> ToSet(answer.flows.flows) # rows)
CatalogueSound ==
    /\ answer.tool = "catalogue" => CatalogueOfFlows
    /\ answer.tool = "summaries" =>
         LET rows == answer.rows
         IN  /\ \A n \in answer.view.nodes : \E r \in rows : {s \in rows : n \in s.members} = {r}
             /\ MapThenSumSet(LAMBDA r : 2 * r.internal + r.external, rows) = 2 * Cardinality(Pairs(answer.view, Structural))
             /\ \A r \in rows : r.density[1] \in 0..r.density[2]
             /\ Len(answer.first) = 1 /\ ToSet(answer.communities) \subseteq rows
             /\ \A r \in answer.risk : \E i \in DOMAIN answer.riskiest : answer.riskiest[i] = r \/ answer.riskiest[i].score >= r.score
             /\ \A r, s \in answer.risk : r.score >= s.score => r.level >= s.level
    /\ answer.tool = "postprocess" =>
         /\ answer.of.recorded <=> ~answer.of.raised
         /\ LevelStages[answer.of.applied] \subseteq answer.of.ran /\ answer.of.ran \subseteq answer.stages
         /\ answer.of.recorded => answer.of.ran \cup {"index"} = answer.stages \cup {"index"}
         /\ (\A m, n \in answer.view.nodes : answer.canon[m] = answer.canon[n] => m = n) => answer.of.recorded
(* What becomes of source files.  The last rule that aligns with a path    *)
(* decides whether it is left out, whatever came before (a path that       *)
(* begins with a dot apart); an import reaches a module exactly when some  *)
(* applicable pattern does, the longest wildcard first; a call on a local  *)
(* variable is resolved exactly when its last assignment before the call,  *)
(* in its own scope, gives it a class, and a server's answer is used only  *)
(* where that says nothing; a resolved call has one edge, and tests and    *)
(* what they call point at each other; a key's path is its ancestors by    *)
(* indentation, and every read of it is bound to a symbol around it; and a *)
(* saving counts each named file that can be read, and no other.           *)
(* (code/ignores.py, aliases.py, dataflow.py, resolve.py, graph.py,        *)
(* config_keys.py, context/savings.py)                                     *)
Aligned(pattern, path) == \E at \in [DOMAIN path -> DOMAIN pattern] :
    /\ \A i, j \in DOMAIN path : i < j => at[i] <= at[j]
    /\ \A k \in DOMAIN pattern :
          IF pattern[k] = AnyDepth THEN k = Len(pattern) => at[Len(path)] = k
          ELSE \E i \in DOMAIN path : {j \in DOMAIN path : at[j] = k} = {i} /\ FitsSegment(pattern[k], path[i])
IgnoreSound ==
    LET rules == answer.loaded.rules
        Hits(p) == {i \in DOMAIN rules : \E k \in (IF rules[i].directory THEN 1 ELSE Len(p))..Len(p) :
                                             Aligned(rules[i].pattern, SubSeq(p, 1, k))}
        Out(p) == Hits(p) # {} /\ ~rules[Max(Hits(p))].negated
    IN  /\ \A p \in ToSet(answer.paths) : (p \in ToSet(answer.of.kept) <=> p \notin ToSet(answer.of.dropped))
                                         /\ (p[1].dot \/ (Out(p) <=> p \in ToSet(answer.of.dropped)))
        /\ FoldFunction(+, 0, answer.report.byPattern) = answer.report.count
        /\ answer.loaded.error => answer.of.kept = answer.paths

AliasSound ==
    LET ps == answer.config.patterns
        spec == answer.spec
        Tried(segments) == {[segments |-> segments, ext |-> e] : e \in {0, 1}} \cup {[segments |-> Append(segments, "index"), ext |-> 1]}
        HitsOf(p) == UNION {Tried(Normalise(Normalise(answer.config.base) \o Expand(p.targets[t], Middle(p, spec)))) : t \in DOMAIN p.targets} \cap answer.known
        applying == {p \in ps : Applies(p, spec)}
        hitting  == {p \in applying : HitsOf(p) # {}}
    IN  /\ ToSet(answer.of) \subseteq answer.known
        /\ applying # {} /\ spec # <<>> => (answer.of = <<>> <=> hitting = {})
        /\ hitting # {} /\ (\A p \in applying : p.star) =>
              \E p \in hitting : answer.of[1] \in HitsOf(p) /\ \A q \in hitting : Len(q.prefix) <= Len(p.prefix)

DepthAt(body, i) == Cardinality({j \in 1..i : body[j].form = "open"}) - Cardinality({j \in 1..i : body[j].form = "close"})
SameScope(body, j, i) == j <= i /\ \A k \in j..i : DepthAt(body, k) >= DepthAt(body, i) /\ (k = j => DepthAt(body, k) = DepthAt(body, i))
RECURSIVE ClassAt(_, _, _, _, _)
ClassAt(body, v, i, k, classes) ==
    LET defs == {j \in 1..k : body[j].form = "statement" /\ body[j].target = v /\ SameScope(body, j, i)}
        last == body[Max(defs)].value
    IN  IF defs = {} THEN "" ELSE IF last \in classes THEN last ELSE ClassAt(body, last, i, Max(defs) - 1, classes)
FlowOf(program, f) ==
    LET methods == MethodsByClass(program)
        Key(i) == <<ClassAt(f.body, f.body[i].recv, i, i, ClassNames(program)), f.body[i].method>>
        calls  == {i \in DOMAIN f.body : f.body[i].form = "statement" /\ Key(i) \in DOMAIN methods
                                         /\ methods[Key(i)] # EnclosingFunction(f, f.body[i].line)}
        Called(i) == <<EnclosingFunction(f, f.body[i].line), f.body[i].method>>
    IN  [c \in {Called(i) : i \in calls} |-> methods[Key(Max({i \in calls : Called(i) = c}))]]
ResolveSound ==
    LET own   == FlowOf(answer.program, answer.program[1])
        kinds == [q \in {s.qualified : s \in AllSymbols(answer.program)} |->
                    (CHOOSE s \in AllSymbols(answer.program) : s.qualified = q).kind]
        edges == DOMAIN answer.of
    IN  /\ answer.flow = own
        /\ \A k \in DOMAIN answer.all :
              /\ answer.all[k] # k[1] /\ answer.all[k] \in DOMAIN kinds
              /\ k \in DOMAIN own => answer.all[k] = own[k]
              /\ k \notin DOMAIN own => \E l \in DOMAIN answer.servers : answer.servers[l].state = "works"
              /\ \A t \in NamedOf(answer.program, k[2], {"function", "method"}) : <<k[1], "calls", t>> \in edges =>
                    \E m \in DOMAIN answer.all : m[1] = k[1] /\ answer.all[m] = t
        /\ \A e \in edges : /\ e[1] # e[3] /\ {e[1], e[3]} \subseteq DOMAIN kinds
                            /\ e[2] = "tested_by" => kinds[e[3]] = "test" /\ <<e[3], "calls", e[1]>> \in edges
                            /\ e[2] = "calls" /\ kinds[e[1]] = "test" => <<e[3], "tested_by", e[1]>> \in edges
                            /\ e[2] = "routes_to" => kinds[e[1]] = "route"
        /\ \A i \in DOMAIN answer.taint : \A v \in answer.taint[i].args : \E j \in DOMAIN answer.program[1].body :
              LET st == answer.program[1].body[j] IN st.form = "statement" /\ st.target = v /\ st.method \in TaintSources

KeysSound ==
    LET lines == answer.file.lines
        Parents(i) == {j \in 1..(i - 1) : lines[j].key # 0 /\ \A k \in (j + 1)..i : lines[k].key # 0 => lines[j].indent < lines[k].indent}
        PathOf(i) == LET up == Sorted(Parents(i) \cup {i}) IN [k \in DOMAIN up |-> lines[up[k]].key]
        shown == {i \in DOMAIN lines : lines[i].key # 0 /\ Cardinality(Parents(i)) < 2}
    IN  /\ answer.file.form = "yaml" => /\ ToSet(answer.of) \subseteq {PathOf(i) : i \in shown}
                                        /\ Len(answer.of) < 3 => ToSet(answer.of) = {PathOf(i) : i \in shown}
        /\ \A r \in answer.reads : r.line > 0 /\ r.key \in ToSet(answer.of) => \E q \in answer.pairs : q[1] = r.key
        /\ \A q \in answer.pairs : q[2] # Args.owners.path => \E r \in answer.reads, s \in ToSet(Args.owners.symbols) :
              r.key = q[1] /\ s.qualified = q[2] /\ r.line \in s.start..s.end

SavingsSound == \A i \in DOMAIN answer.of :
    LET of == answer.of[i]
        named == UNION ToSet(answer.payload.objects)
        Counts(p) == answer.files[p].inside /\ answer.files[p].present /\ answer.files[p].readable /\ answer.files[p].size <= 9
    IN  /\ of.saved <= TokensOf(answer.files, {p \in named : Counts(p)}) - of.graph
        /\ Cardinality(named) <= 3 => of.saved = TokensOf(answer.files, {p \in named : Counts(p)}) - of.graph
        /\ of.base.read \cup DOMAIN of.base.excluded = of.named /\ Cardinality(of.named) = Min({3, Cardinality(named)})
        /\ FoldFunction(+, of.breakdown.envelope, of.breakdown.keys) = of.graph

(* A setting is the environment's where it has one, else the file's where  *)
(* it has that section and key, else the default.                          *)
ConfigSound ==
    LET File(s, k) == {answer.file.sections[t].keys[k] : t \in {u \in {s} \cap DOMAIN answer.file.sections :
                                answer.file.sections[u].object /\ k \in DOMAIN answer.file.sections[u].keys}}
        Unless(s, k) == IF answer.file.state = "ok" /\ File(s, k) # {} THEN CHOOSE x \in File(s, k) : TRUE ELSE Args.defaults[s][k]
        got == answer.of.config
    IN  IF answer.of.error THEN answer.file.state = "invalid" ELSE
        /\ answer.file.state # "invalid" /\ DOMAIN got = DOMAIN Args.defaults
        /\ \A s \in DOMAIN got : DOMAIN got[s] = DOMAIN Args.defaults[s]
        /\ got.network.outbound = IF "outbound" \in DOMAIN answer.env THEN answer.env.outbound \in {"1", "on"} ELSE Unless("network", "outbound")
        /\ "hosts" \in DOMAIN answer.env => "" \notin ToSet(got.mcp.hosts) /\ ToSet(got.mcp.hosts) \subseteq ToSet(answer.env.hosts)
        /\ "hosts" \notin DOMAIN answer.env => got.mcp.hosts = Unless("mcp", "hosts")
        /\ "bind" \notin DOMAIN answer.env => got.mcp.bind = Unless("mcp", "bind")
(* The chunks are the text: each character that is not white space is in   *)
(* one of them, in order; only pieces of one long paragraph stand alone,   *)
(* and no chunk is twice the maximum.                                      *)
ChunksSound ==
    LET of == answer.of
        pieces == FoldLeft(LAMBDA out, c : out \o c.text, <<>>, of)
        Size(c) == FoldLeft(LAMBDA n, x : n + x[3] - x[2], 0, c.text)
    IN  /\ {x[1] : x \in ToSet(pieces)} = {i \in DOMAIN answer.paras : answer.paras[i].len > 0}
        /\ \A k \in DOMAIN pieces :
              /\ pieces[k][2] < pieces[k][3]
              /\ pieces[k][2] # 0 => k > 1 /\ pieces[k - 1][1] = pieces[k][1] /\ pieces[k - 1][3] = pieces[k][2]
              /\ pieces[k][3] # answer.paras[pieces[k][1]].len =>
                    k < Len(pieces) /\ pieces[k + 1][1] = pieces[k][1] /\ pieces[k + 1][2] = pieces[k][3]
              /\ k > 1 => pieces[k - 1][1] <= pieces[k][1]
        /\ \A k \in DOMAIN of :
              /\ Len(of[k].text) <= answer.perChunk /\ Size(of[k]) < 2 * answer.max
              /\ of[k].start <= of[k].end /\ (k > 1 => of[k - 1].end <= of[k].start)
              /\ of[k].start = answer.paras[Head(of[k].text)[1]].start + Head(of[k].text)[2] /\ of[k].end <= answer.paras[Last(of[k].text)[1]].end
              /\ Len(of[k].text) > 1 => Size(of[k]) - (Last(of[k].text)[3] - Last(of[k].text)[2]) < answer.max
(* Splitting loses no character and leaves no run the staged tokenizer     *)
(* would count as one token; what has no long run is counted as it is.     *)
TokensSound ==
    LET Total(t) == FoldLeft(LAMBDA n, r : n + r, 0, Runs(t))
        long == \E r \in ToSet(Runs(answer.text)) : r > answer.limit
    IN  /\ Total(answer.split) = Total(answer.text) /\ \A r \in ToSet(Runs(answer.split)) : r <= answer.limit
        /\ ~long => answer.split = answer.text
        /\ answer.of * 4 >= Total(answer.text)
        /\ answer.tools.bpe \/ answer.tools.staged = "loads" => answer.of * 3 >= Total(answer.text)
(* There is one file for each question, however it was typed, with the     *)
(* last answer given; the last ingest accounts for every file, and what it *)
(* took in is the newest version.                                          *)
MemorySound ==
    LET steps == answer.steps
        Asked(i) == ~steps[i].ingest /\ \E t \in ToSet(steps[i].question) : ~IsSpace(t)
        Same(i, j) == QuestionId(steps[i].question) = QuestionId(steps[j].question)
        last == {i \in DOMAIN steps : Asked(i) /\ \A j \in (i + 1)..Len(steps) : Asked(j) => ~Same(i, j)}
        of == answer.of
        ingests == {i \in DOMAIN steps : steps[i].ingest}
    IN  /\ Cardinality(DOMAIN of.files) = Cardinality(last)
        /\ \A i \in last : of.files[<<QuestionId(steps[i].question), Slug(steps[i].question)>>] = <<steps[i].answer, steps[i].stamp, Heading(steps[i].question)>>
        /\ of.report.ingested \cap of.report.failed = {} /\ of.report.total = Cardinality(of.report.ingested \cup of.report.failed)
        /\ \A p \in DOMAIN of.docs : IsInjective(of.docs[p]) /\ of.docs[p] # <<>>
        /\ ingests # {} /\ Max(ingests) = Len(steps) =>
              /\ of.report.ingested \cup of.report.failed = DOMAIN of.files
              /\ \A p \in of.report.ingested : Last(of.docs[p]) = of.files[p]
SourcesSound ==
    /\ answer.tool = "config" => ConfigSound
    /\ answer.tool = "chunks" => ChunksSound
    /\ answer.tool = "tokens" => TokensSound
    /\ answer.tool = "memory" => MemorySound
    /\ answer.tool = "ignore" => IgnoreSound
    /\ answer.tool = "alias" => AliasSound
    /\ answer.tool = "resolve" => ResolveSound
    /\ answer.tool = "keys" => KeysSound
    /\ answer.tool = "savings" => SavingsSound
=============================================================================
