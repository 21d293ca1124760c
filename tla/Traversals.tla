----------------------------- MODULE Traversals -----------------------------
(***************************************************************************)
(* The in-memory view of the code graph that every analysis reads          *)
(* (code/analysis.py), and bounded walks over it: blast radius             *)
(* (code/impact.py), execution flow (code/flow.py), flow criticality and   *)
(* free traversal (code/criticality.py).                                   *)
(*                                                                         *)
(* A view is a record: `nodes`, a finite set of numbers, in the order of   *)
(* their canonical names; `kind`, `file`, `lang`, `lines`, `name`, one     *)
(* function over the nodes each; `edges`, a set of records                 *)
(* [s, p, o, w] (subject, predicate, object, confidence in hundredths);    *)
(* and `truncated`.  A node has one canonical name, so `nodes` also stands *)
(* for the entity ids.  `lines` is 0 when the parser recorded no span.     *)
(* Two fields are of the database: `rows`, the most rows that one query    *)
(* for the neighbours of a node returns (its LIMIT: 2000 in impact.py,     *)
(* flow.py and slices.py, 1000 a direction in traverse, 500 in             *)
(* flow_criticality), and `like`, the pairs of files such that the pattern *)
(* of the first takes the symbols of the second too.  `sweeps` holds two   *)
(* constants of centrality.py: the most nodes betweenness is exact for     *)
(* (1000), and the sources it samples above that (500).                    *)
(*                                                                         *)
(* A walk is a loop over a queue or a stack with a bound on depth and a    *)
(* bound on the number of nodes, and says when a bound cut its answer.     *)
(***************************************************************************)
EXTENDS Integers, Sequences, FiniteSets, SequencesExt, FiniteSetsExt

Structural == {"calls", "imports", "inherits"}
SymbolKinds == {"function", "method", "class", "type", "test"}

(* A set in the order a sorted query or list gives (SetToSortSeq of the    *)
(* library tries every sequence over the set).                             *)
InOrderOf(S, Before(_, _)) == SortSeq(FoldSet(LAMBDA x, s : Append(s, x), <<>>, S), Before)
Sorted(S) == InOrderOf(S, <)
Foremost(s, k) == SubSeq(s, 1, Min({k, Len(s)}))
Earlier(s, t) == \E i \in DOMAIN s : s[i] < t[i] /\ \A j \in 1..(i - 1) : s[j] = t[j]
(* The same function as a table: TLC evaluates the body of a function at   *)
(* every application otherwise.                                            *)
Table(f) == f @@ <<>>

EdgesFor(v, preds) == {e \in v.edges : e.p \in preds}
Outgoing(v, preds, n) == {e.o : e \in {x \in EdgesFor(v, preds) : x.s = n}}
Incoming(v, preds, n) == {e.s : e \in {x \in EdgesFor(v, preds) : x.o = n}}

(* Distinct neighbours in either direction; a self loop is dropped. *)
Near(v, preds, n) == (Outgoing(v, preds, n) \cup Incoming(v, preds, n)) \ {n}
Degree(v, preds, n) == Cardinality(Near(v, preds, n))

Pairs(v, preds) == {{e.s, e.o} : e \in {x \in EdgesFor(v, preds) : x.s # x.o}}

(* What the community detectors consume: one weight per unordered pair,    *)
(* parallel edges summed.                                                  *)
PairWeights(v, preds) ==
    [q \in Pairs(v, preds) |->
        MapThenSumSet(LAMBDA e : e.w, {e \in EdgesFor(v, preds) : {e.s, e.o} = q})]

Symbols(v) == {n \in v.nodes : v.kind[n] \in SymbolKinds}

(* The loader: the first maxNodes nodes by name, the first maxNodes *      *)
(* perNode edges that join two of them, and one flag for both cuts.  The   *)
(* second SELECT is ordered by subject, predicate and object.              *)
PredicateRank(p) ==
    CHOOSE i \in 1..7 : <<"calls", "defines", "dispatches", "imports", "inherits", "routes_to",
                          "tested_by">>[i] = p
SortsBefore(x, e) ==
    \/ x.s < e.s
    \/ x.s = e.s /\ PredicateRank(x.p) < PredicateRank(e.p)
    \/ x.s = e.s /\ x.p = e.p /\ x.o < e.o
LoadCodeGraph(db, maxNodes, perNode) ==
    LET cap    == Max({1, maxNodes})
        nodes  == {n \in db.nodes : Cardinality({m \in db.nodes : m < n}) < cap}
        inside == {e \in db.edges : {e.s, e.o} \subseteq nodes}
        edges  == {e \in inside :
                     Cardinality({x \in inside : SortsBefore(x, e)}) < cap * perNode}
    IN  [db EXCEPT !.nodes = nodes, !.edges = edges,
                   !.truncated = db.nodes # nodes \/ inside # edges]

-----------------------------------------------------------------------------

Clamp(x, lo, hi) == Max({lo, Min({x, hi})})
Without(q, S) == SelectSeq(q, LAMBDA n : n \notin S)

(* The neighbours that the query for a node returns when it takes them in  *)
(* `order`: a row for every relationship, those with one neighbour next to *)
(* each other, and no row after the LIMIT.                                 *)
FirstRows(order, rows, limit) ==
    FoldLeft(LAMBDA a, m : IF a.left > 0 THEN [of |-> Append(a.of, m), left |-> a.left - rows[m]] ELSE a,
             [of |-> <<>>, left |-> limit], order).of
RowsInto(v, preds, n) == {e \in EdgesFor(v, preds) : e.o = n}
RowsOutOf(v, preds, n) == {e \in EdgesFor(v, preds) : e.s = n}
ReadInto(v, preds, n, order) ==
    FirstRows(SelectSeq(order, LAMBDA m : m \in Incoming(v, preds, n)),
              [m \in v.nodes |-> Cardinality({e \in RowsInto(v, preds, n) : e.s = m})], v.rows)
ReadOutOf(v, preds, n, order) ==
    FirstRows(SelectSeq(order, LAMBDA m : m \in Outgoing(v, preds, n)),
              [m \in v.nodes |-> Cardinality({e \in RowsOutOf(v, preds, n) : e.o = m})], v.rows)

(* The walk that blast_radius and execution_flow share: a queue, nodes     *)
(* marked when they are put in it, nodes at the depth bound not expanded.  *)
(* succ[n] is the sequence of rows a query for n returns, each node once:  *)
(* a second row for a node finds it seen.  When the cap is reached the     *)
(* remaining rows of the node are dropped and the flag is set; the queue   *)
(* is still worked off.  `adj` is what was read of each node, the row at   *)
(* which the cap was met included.                                         *)
RECURSIVE Walk(_, _, _, _)
Walk(b, succ, depth, cap) ==
    IF b.queue = <<>> THEN b ELSE
    LET cur   == Head(b.queue)
        new   == Without(succ[cur], ToSet(b.seen))
        room  == cap - Len(b.seen)
        taken == SubSeq(new, 1, Min({room, Len(new)}))
        next  == IF b.dist[cur] >= depth
                 THEN [b EXCEPT !.queue = Tail(@)]
                 ELSE [seen |-> b.seen \o taken,
                       queue |-> Tail(b.queue) \o taken,
                       dist |-> [n \in DOMAIN b.dist |->
                                   IF n \in ToSet(taken) THEN b.dist[cur] + 1 ELSE b.dist[n]],
                       adj |-> [b.adj EXCEPT ![cur] =
                                  IF Len(new) > room
                                  THEN SubSeq(succ[cur], 1, CHOOSE i \in DOMAIN succ[cur] :
                                                               succ[cur][i] = new[room + 1])
                                  ELSE succ[cur]],
                       truncated |-> b.truncated \/ Len(new) > room]
    IN  Walk(next, succ, depth, cap)
StartAt(root, succ) ==
    [seen |-> <<root>>, queue |-> <<root>>, dist |-> [n \in DOMAIN succ |-> 0],
     adj |-> [n \in DOMAIN succ |-> <<>>], truncated |-> FALSE]
BoundedWalk_OneDeeper(succ, root, depth, cap) == Walk(StartAt(root, succ), succ, depth + 1, cap)
BoundedWalk(succ, root, depth, cap) == Walk(StartAt(root, succ), succ, depth, cap)

(* Who depends on root.  The query has no ORDER BY: `rows` is the order in *)
(* which the database happens to return them.                              *)
ImpactPredicates == {"calls", "inherits", "imports"}
BlastRadius(v, root, depth, maxNodes, rows) ==
    LET succ == [n \in v.nodes |-> ReadInto(v, ImpactPredicates, n, rows)]
        walk == BoundedWalk(succ, root, Clamp(depth, 1, 10), Clamp(maxNodes, 1, 5000))
    IN  [impacted |-> ToSet(walk.seen) \ {root}, truncated |-> walk.truncated]

(* The union over the symbols of a file, less the file's own; the flag of  *)
(* the single answers is not passed on.  The file's own are its module,    *)
(* named as the file is, and what the pattern `path::%' takes: the symbols *)
(* of a file whose path the pattern matches count as its own.              *)
TakenAsOwn(v, path) ==
    {n \in v.nodes : v.file[n] = path \/ (v.kind[n] # "module" /\ <<path, v.file[n]>> \in v.like)}
BlastRadiusForFile(v, path, depth, maxNodes, rows) ==
    LET own == TakenAsOwn(v, path)
    IN  UNION {BlastRadius(v, n, depth, maxNodes, rows).impacted : n \in own} \ own

(* Depth-first enumeration of the paths from the last node of `path`: a    *)
(* node on the path is not entered again, and nothing is listed once the   *)
(* number of chains has reached the cap.                                   *)
RECURSIVE Chains(_, _, _, _, _)
Chains(acc, adj, path, depth, cap) ==
    LET open == Without(adj[Last(path)], ToSet(path))
    IN  IF Len(acc.chains) >= cap
        THEN [acc EXCEPT !.truncated = TRUE]
        ELSE IF open = <<>> \/ Len(path) > depth
        THEN [acc EXCEPT !.chains = Append(@, path)]
        ELSE FoldLeft(LAMBDA a, n : Chains(a, adj, Append(path, n), depth, cap), acc, open)

(* What root reaches by calls, and along which chains: those of the rows   *)
(* that were read.  The rows come by entity id, whose order (`ids`) is not *)
(* that of the names.                                                      *)
ExecutionFlow(v, root, depth, maxNodes, maxChains, ids) ==
    LET d     == Clamp(depth, 1, 20)
        succ  == [n \in v.nodes |-> ReadOutOf(v, {"calls"}, n, ids)]
        walk  == BoundedWalk(succ, root, d, Clamp(maxNodes, 1, 5000))
        found == Chains([chains |-> <<>>, truncated |-> FALSE], walk.adj, <<root>>,
                        d, Clamp(maxChains, 1, 2000))
    IN  [reached |-> ToSet(walk.seen) \ {root}, truncated |-> walk.truncated,
         chains |-> found.chains, chainsTruncated |-> found.truncated]

(* flow_criticality enumerates the same paths with a stack of its own.     *)
(* A path longer than the depth is listed as it is; one whose last node    *)
(* has no row that is off the path is a leaf.  `visited` counts the nodes  *)
(* put on the stack: when it reaches the cap the enumeration stops, and    *)
(* the path at hand is listed if none of its extensions was.               *)
RECURSIVE Enumerate(_, _, _, _, _)
Enumerate(b, succ, depth, maxPaths, maxNodes) ==
    IF b.stack = <<>> \/ Len(b.paths) >= maxPaths \/ b.truncated THEN b ELSE
    LET path  == Last(b.stack)
        rest  == Front(b.stack)
        open  == Without(succ[Last(path)], ToSet(path))
        room  == maxNodes - b.visited
        taken == SubSeq(open, 1, Min({room, Len(open)}))
        next  == IF Len(path) > depth
                 THEN [b EXCEPT !.stack = rest, !.paths = Append(@, path)]
                 ELSE [stack |-> rest \o [i \in DOMAIN taken |-> Append(path, taken[i])],
                       paths |-> IF taken = <<>> THEN Append(b.paths, path) ELSE b.paths,
                       visited |-> b.visited + Len(taken),
                       truncated |-> \E i \in DOMAIN succ[Last(path)] :
                                        room = Cardinality(ToSet(SubSeq(succ[Last(path)], 1, i - 1))
                                                             \ ToSet(path))]
    IN  Enumerate(next, succ, depth, maxPaths, maxNodes)
FlowPaths(v, root, depth, maxPaths, maxNodes) ==
    Enumerate([stack |-> <<<<root>>>>, paths |-> <<>>, visited |-> 0, truncated |-> FALSE],
              [n \in v.nodes |-> ReadOutOf(v, {"calls"}, n, Sorted(v.nodes))],
              Clamp(depth, 1, 20), Clamp(maxPaths, 1, 500), Clamp(maxNodes, 1, 20000))

(* The factors of a flow's criticality.  Weights are in hundredths; each   *)
(* is a share of the paths listed, so the sum is kept times Scale * their  *)
(* number instead of being rounded.                                        *)
Scale == 12
FanIn(v, n) == Cardinality({e \in v.edges : e.o = n /\ e.p \in ImpactPredicates})
PeakFanIn(v, path) == Max({FanIn(v, n) : n \in ToSet(path)})
Files(v, path) == Cardinality({v.file[n] : n \in ToSet(path)})
Tested(v, path) == \E e \in v.edges : e.p = "tested_by" /\ e.s \in ToSet(path)
Confidence(v, s, o) == (CHOOSE e \in v.edges : e.s = s /\ e.o = o /\ e.p = "calls").w
MeanConfidence(v, path) ==
    IF Len(path) = 1 THEN 100 * Scale
    ELSE (Scale * FoldLeftDomain(LAMBDA t, i : IF i = 1 THEN t
                                               ELSE t + Confidence(v, path[i - 1], path[i]),
                                 0, path)) \div (Len(path) - 1)
PercentileRank(x, xs) == Cardinality({i \in DOMAIN xs : xs[i] <= x})
Criticality(v, paths, path) ==
    LET N == Len(paths)
        Share(F(_)) == Scale * PercentileRank(F(path), [i \in DOMAIN paths |-> F(paths[i])])
    IN  100 * (25 * Share(Len)
             + 35 * Share(LAMBDA p : PeakFanIn(v, p))
             + 20 * Share(LAMBDA p : Files(v, p)))
        + N * (20 * MeanConfidence(v, path)
             + IF Tested(v, path) THEN 0 ELSE 15 * 100 * Scale)

(* Free traversal.  One list serves both orders: breadth takes its head,   *)
(* depth its tail.  A node is charged cost[n] when it is returned, the     *)
(* root always is; the walk ends when a node does not fit any more.        *)
RECURSIVE Roam(_, _, _)
Roam(b, v, q) ==
    IF b.front = <<>> \/ b.hitTokens \/ b.hitNodes THEN b ELSE
    LET cur   == IF q.order = "breadth" THEN Head(b.front) ELSE Last(b.front)
        rest  == IF q.order = "breadth" THEN Tail(b.front) ELSE Front(b.front)
        d     == b.dist[cur]
        rows  == (IF q.direction = "in" THEN <<>> ELSE ReadOutOf(v, q.preds, cur, Sorted(v.nodes)))
                 \o (IF q.direction = "out" THEN <<>> ELSE ReadInto(v, q.preds, cur, Sorted(v.nodes)))
        Take(a, n) ==
            IF n \in DOMAIN a.dist \/ a.hitNodes \/ a.hitTokens THEN a
            ELSE IF Cardinality(DOMAIN a.dist) >= q.maxNodes THEN [a EXCEPT !.hitNodes = TRUE]
            ELSE IF a.tokens + q.cost[n] > q.budget THEN [a EXCEPT !.hitTokens = TRUE]
            ELSE [a EXCEPT !.dist = [m \in DOMAIN @ \cup {n} |-> IF m = n THEN d + 1 ELSE @[m]],
                           !.tokens = @ + q.cost[n],
                           !.front = Append(@, n)]
    IN  IF d >= q.depth
        THEN Roam([b EXCEPT !.front = rest, !.hitDepth = TRUE], v, q)
        ELSE Roam(FoldLeft(Take, [b EXCEPT !.front = rest], rows), v, q)
Traverse(v, root, q) ==
    Roam([front |-> <<root>>, dist |-> [n \in {root} |-> 0], tokens |-> q.cost[root],
          hitDepth |-> FALSE, hitTokens |-> FALSE, hitNodes |-> FALSE],
         v, [q EXCEPT !.depth = Clamp(q.depth, 1, 20), !.maxNodes = Clamp(q.maxNodes, 1, 20000)])
=============================================================================
