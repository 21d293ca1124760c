------------------------------ MODULE Structure -----------------------------
(***************************************************************************)
(* Structural measures of a view: components, betweenness, cut points and  *)
(* bridges (code/centrality.py), candidate dead code (code/deadcode.py),   *)
(* unexpected coupling (code/coupling.py), knowledge gaps (code/gaps.py)   *)
(* and oversized symbols (code/size.py).  An undirected graph is a         *)
(* function from nodes to their neighbours.                                *)
(***************************************************************************)
EXTENDS Traversals

Undirected(v, preds) == Table([n \in v.nodes |-> Near(v, preds, n)])

(* One component at a time, from the smallest node not seen yet, by a      *)
(* stack.                                                                  *)
RECURSIVE Flood(_, _, _)
Flood(adj, stack, seen) ==
    IF stack = <<>> THEN seen
    ELSE LET new == adj[Last(stack)] \ seen
         IN  Flood(adj, Front(stack) \o Sorted(new), seen \cup new)
ConnectedComponents(adj) ==
    FoldLeft(LAMBDA found, n : IF n \in UNION found THEN found
                               ELSE found \cup {Flood(adj, <<n>>, {n})},
             {}, Sorted(DOMAIN adj))

(* Brandes: one breadth-first sweep per source counts shortest paths       *)
(* (sigma) and remembers predecessors; a pass back over the visiting order *)
(* accumulates dependencies.  Dependencies are kept times Unit, which the  *)
(* path counts of the instance divide, so the division is exact.           *)
CONSTANT Unit

RECURSIVE Sweep(_, _)
Sweep(b, adj) ==
    IF b.queue = <<>> THEN b ELSE
    LET x == Head(b.queue)
        Relax(a, w) ==
            LET first == a.dist[w] < 0
                dist  == IF first THEN [a.dist EXCEPT ![w] = a.dist[x] + 1] ELSE a.dist
                next  == dist[w] = dist[x] + 1
            IN  [queue |-> IF first THEN Append(a.queue, w) ELSE a.queue,
                 order |-> a.order,
                 dist  |-> dist,
                 sigma |-> IF next THEN [a.sigma EXCEPT ![w] = @ + a.sigma[x]] ELSE a.sigma,
                 preds |-> IF next THEN [a.preds EXCEPT ![w] = @ \cup {x}] ELSE a.preds]
    IN  Sweep(FoldLeft(Relax, [b EXCEPT !.queue = Tail(@), !.order = Append(@, x)],
                       Sorted(adj[x])), adj)
Dependencies(adj, s) ==
    LET none  == [n \in DOMAIN adj |-> 0]
        sweep == Sweep([queue |-> <<s>>, order |-> <<>>, dist |-> [n \in DOMAIN adj |-> IF n = s THEN 0 ELSE -1],
                        sigma |-> [none EXCEPT ![s] = 1], preds |-> [n \in DOMAIN adj |-> {}]], adj)
        Back(delta, w) ==
            [n \in DOMAIN delta |->
                IF n \in sweep.preds[w]
                THEN delta[n] + sweep.sigma[n] * ((Unit + delta[w]) \div sweep.sigma[w])
                ELSE delta[n]]
        delta == FoldLeft(Back, none, Reverse(sweep.order))
    IN  [delta EXCEPT ![s] = 0]
(* The sources: every node, or in a large graph every so manieth in the    *)
(* order of the entity ids (`ids`), which is not that of the names.        *)
BetweennessSeeds(v, ids) ==
    LET order  == SelectSeq(ids, LAMBDA n : n \in v.nodes)
        stride == (Len(order) + v.sweeps.budget - 1) \div v.sweeps.budget
    IN  IF Len(order) <= v.sweeps.exact THEN v.nodes
        ELSE {order[i] : i \in {j \in DOMAIN order : (j - 1) % stride = 0}}
(* Raw scores, scaled up to all sources when a sample was swept (Unit lets *)
(* it be exact in the instance); dividing by (n-1)(n-2) is left out.       *)
Betweenness_FirstSourceSkipped(adj, seeds) ==
    [n \in DOMAIN adj |->
        IF Cardinality(DOMAIN adj) < 3 THEN 0
        ELSE (Cardinality(DOMAIN adj) * MapThenSumSet(LAMBDA s : Dependencies(adj, s)[n], seeds \ {Min(DOMAIN adj)}))
                \div Cardinality(seeds)]
Betweenness(adj, seeds) ==
    [n \in DOMAIN adj |->
        IF Cardinality(DOMAIN adj) < 3 THEN 0
        ELSE (Cardinality(DOMAIN adj) * MapThenSumSet(LAMBDA s : Dependencies(adj, s)[n], seeds))
                \div Cardinality(seeds)]

(* The low-link pass: an explicit stack of frames (node, parent, the       *)
(* neighbours not looked at yet), restarted at every undiscovered node.    *)
RECURSIVE LowLink(_, _)
LowLink(b, adj) ==
    LET frame == Last(b.stack)
        node  == frame.node
        root  == Head(b.stack).node
        above == b.stack[Len(b.stack) - 1].node
        other == Head(frame.rest)
        rest  == [b EXCEPT !.stack[Len(b.stack)].rest = Tail(@)]
        low   == [b.low EXCEPT ![above] = Min({@, b.low[node]})]
    IN  IF frame.rest # <<>> /\ b.disc[other] = 0
        THEN LowLink([rest EXCEPT !.timer = @ + 1, !.disc[other] = b.timer, !.low[other] = b.timer,
                                  !.children = @ + (IF node = root THEN 1 ELSE 0),
                                  !.stack = Append(@, [node |-> other, parent |-> node,
                                                       rest |-> Sorted(adj[other])])], adj)
        ELSE IF frame.rest # <<>>
        THEN LowLink(IF other = frame.parent THEN rest
                     ELSE [rest EXCEPT !.low[node] = Min({@, b.disc[other]})], adj)
        ELSE IF Len(b.stack) = 1
        THEN [b EXCEPT !.stack = <<>>,
                       !.cuts = IF b.children > 1 THEN @ \cup {root} ELSE @]
        ELSE LowLink([b EXCEPT !.stack = Front(@), !.low = low,
                               !.bridges = IF b.low[node] > b.disc[above]
                                           THEN @ \cup {{above, node}} ELSE @,
                               !.cuts = IF above # root /\ b.low[node] >= b.disc[above]
                                        THEN @ \cup {above} ELSE @], adj)
(* Discovery times start at 1; 0 is undiscovered.                          *)
CutsAndBridges(adj) ==
    LET zero == [n \in DOMAIN adj |-> 0]
        Start(b, n) ==
            IF b.disc[n] # 0 THEN b
            ELSE LowLink([b EXCEPT !.disc[n] = b.timer, !.low[n] = b.timer, !.timer = @ + 1,
                                   !.children = 0,
                                   !.stack = <<[node |-> n, parent |-> 0, rest |-> Sorted(adj[n])]>>],
                         adj)
    IN  FoldLeft(Start, [disc |-> zero, low |-> zero, timer |-> 1, children |-> 0, stack |-> <<>>,
                         cuts |-> {}, bridges |-> {}], Sorted(DOMAIN adj))

(* Hubs, best first: 0.6 of normalised betweenness and 0.4 of normalised   *)
(* degree, brought to the common denominator 10 (n-1)(n-2) Unit, with 1    *)
(* for n-2 when there are two nodes, and no betweenness.  A                *)
(* chokepoint is a cut point with a quarter of the highest betweenness.    *)
(* Every list is cut at the limit; the totals count what was found.        *)
HubScore(adj, between, n) ==
    6 * between[n] + 4 * Unit * Max({1, Cardinality(DOMAIN adj) - 2}) * Cardinality(adj[n])
Oriented(v, preds, q) == IF \E e \in EdgesFor(v, preds) : e.s = Min(q) /\ e.o = Max(q)
                         THEN <<Min(q), Max(q)>> ELSE <<Max(q), Min(q)>>
HubsIn(v, preds, adj, between, link, limit) ==
    LET Ranks(m, n) == \/ HubScore(adj, between, m) > HubScore(adj, between, n)
                       \/ /\ HubScore(adj, between, m) = HubScore(adj, between, n)
                          /\ \/ between[m] > between[n]
                             \/ between[m] = between[n] /\ m < n
        hubs    == InOrderOf({n \in v.nodes : adj[n] # {}}, Ranks)
        Carries(m, n) == \/ between[m] > between[n]
                         \/ /\ between[m] = between[n]
                            /\ \/ Cardinality(adj[m]) > Cardinality(adj[n])
                               \/ Cardinality(adj[m]) = Cardinality(adj[n]) /\ m < n
        cuts    == InOrderOf(link.cuts, Carries)
        bridges == InOrderOf({Oriented(v, preds, q) : q \in link.bridges}, Earlier)
        peak    == Max({between[n] : n \in v.nodes} \cup {0})
        chokepoints == SelectSeq(cuts, LAMBDA n : peak > 0 /\ 4 * between[n] >= peak)
        most    == Clamp(limit, 1, 1000)
    IN  [hubs        |-> Foremost(hubs, most),
         cuts        |-> Foremost(cuts, most),
         bridges     |-> Foremost(bridges, most),
         chokepoints |-> Foremost(chokepoints, most),
         totals      |-> [cuts |-> Len(cuts), bridges |-> Len(bridges), chokepoints |-> Len(chokepoints)],
         components  |-> ConnectedComponents(adj),
         betweenness |-> between]
MeasuredHubs(v, preds, adj, seeds, limit) ==
    [sources |-> seeds, sampled |-> Cardinality(v.nodes) > v.sweeps.exact]
      @@ HubsIn(v, preds, adj, Betweenness(adj, seeds), CutsAndBridges(adj), limit)
HubsAndBridges(v, preds, limit, ids) ==
    MeasuredHubs(v, preds, Undirected(v, preds), BetweennessSeeds(v, ids), limit)

(* Definitions without an inbound reference and without evidence that      *)
(* execution starts there.                                                 *)
FrameworkPredicates == {"routes_to", "renders", "relates_to", "configures", "dispatches"}
EntryPointKinds == {"test", "route", "entrypoint"}
IsEntryPoint(v, n) ==
    \/ v.kind[n] \in EntryPointKinds
    \/ Incoming(v, FrameworkPredicates, n) # {}
    \/ v.name[n] \in {"main", "__main__"}
Unreferenced(v, preds, S) == {n \in S : Incoming(v, preds, n) = {}}
DeadCode(v, preds, includeModules, limit) ==
    LET considered   == {n \in v.nodes : includeModules \/ v.kind[n] # "module"}
        unreferenced == Unreferenced(v, preds, considered)
        Longer(m, n) == v.lines[m] > v.lines[n] \/ (v.lines[m] = v.lines[n] /\ m < n)
        candidates   == InOrderOf({n \in unreferenced : ~IsEntryPoint(v, n)}, Longer)
        entries      == Sorted({n \in unreferenced : IsEntryPoint(v, n)})
    IN  [considered |-> considered,
         candidates |-> Foremost(candidates, Clamp(limit, 1, 1000)), count |-> Len(candidates),
         entries    |-> Foremost(entries, Clamp(limit, 1, 1000)), excluded |-> Len(entries)]

(* Nearest rank: the smallest observed value with pct per cent of the      *)
(* observations at or below it, 0 when there are none.  `xs` is sorted.    *)
NearestRank(xs, pct) ==
    IF xs = <<>> THEN 0
    ELSE xs[Min({Len(xs), Max({1, (pct * Len(xs) + 99) \div 100})})]
SortedValues(F(_), S) == SortSeq(FoldSet(LAMBDA x, s : Append(s, F(x)), <<>>, S), <)

(* The degree bands of the graph at hand.  When they fall together the hub *)
(* band is raised to the next degree that occurs, if one does.             *)
DegreeThresholds(v, preds) ==
    LET connected  == SortedValues(LAMBDA n : Degree(v, preds, n),
                                   {n \in v.nodes : Degree(v, preds, n) > 0})
        peripheral == NearestRank(connected, 25)
        atQuantile == NearestRank(connected, 90)
        above      == {d \in ToSet(connected) : d > peripheral}
        hub        == IF atQuantile <= peripheral /\ above # {} THEN Min(above) ELSE atQuantile
    IN  [peripheral |-> peripheral, hub |-> hub, spread |-> hub > peripheral,
         connected |-> connected]

Signals(v, preds, communities, bands, e) ==
    (IF communities[e.s] # communities[e.o] THEN {"cross_community"} ELSE {})
    \cup (IF v.lang[e.s] # v.lang[e.o] /\ "" \notin {v.lang[e.s], v.lang[e.o]}
          THEN {"cross_language"} ELSE {})
    \cup (IF /\ bands.spread
             /\ \E far \in {e.s, e.o} : \E near \in {e.s, e.o} :
                   /\ {near, far} = {e.s, e.o}
                   /\ Degree(v, preds, near) <= bands.peripheral
                   /\ Degree(v, preds, far) >= bands.hub
          THEN {"periphery_to_hub"} ELSE {})
SignalWeight(s) ==
    CASE s = "cross_community" -> 45 [] s = "cross_language" -> 35 [] s = "periphery_to_hub" -> 20
UnexpectedCoupling(v, preds, communities) ==
    LET bands == DegreeThresholds(v, preds)
    IN  {[edge |-> e, score |-> MapThenSumSet(SignalWeight, Signals(v, preds, communities, bands, e))] :
            e \in {x \in EdgesFor(v, preds) :
                      x.s # x.o /\ Signals(v, preds, communities, bands, x) # {}}}

(* Gaps: symbols without a reference, called symbols without a test edge,  *)
(* and communities small and sparse for this graph.  Densities are kept as *)
(* internal pairs times PairUnit over possible pairs.                      *)
PairUnit == 60
UntestedHotspots(v) ==
    LET candidates == {n \in Symbols(v) : v.kind[n] # "test"}
        Callers(n) == Cardinality(Incoming(v, {"calls"}, n))
        positive   == SortedValues(Callers, {n \in candidates : Callers(n) > 0})
        cut        == Max({1, NearestRank(positive, 75)})
        tested     == {e.s : e \in EdgesFor(v, {"tested_by"})}
    IN  [cut |-> cut, rows |-> {n \in candidates \ tested : Callers(n) >= cut}]
ThinCommunities(v, preds, communities) ==
    LET ids == {c \in {communities[n] : n \in v.nodes} :
                  Cardinality({n \in v.nodes : communities[n] = c}) >= 2}
        Members(c) == {n \in v.nodes : communities[n] = c}
        Size(c)    == Cardinality(Members(c))
        Density(c) == (PairUnit * 2 * Cardinality({q \in Pairs(v, preds) : q \subseteq Members(c)}))
                        \div (Size(c) * (Size(c) - 1))
    IN  {c \in ids : /\ Size(c) <= NearestRank(SortedValues(Size, ids), 50)
                     /\ Density(c) <= NearestRank(SortedValues(Density, ids), 50)}
KnowledgeGaps(v, preds, communities) ==
    LET tests == {n \in Symbols(v) : v.kind[n] = "test"}
    IN  [isolated |-> {n \in Symbols(v) : Near(v, preds, n) = {}},
         hotspots |-> UntestedHotspots(v),
         thin     |-> ThinCommunities(v, preds, communities),
         testable |-> Symbols(v) \ tests,
         tested   |-> {e.s : e \in EdgesFor(v, {"tested_by"})} \cap Symbols(v)]

(* Symbols of at least `minLines` lines, longest first; a symbol without a *)
(* recorded span is counted apart.                                         *)
LargeSymbols(v, minLines, kinds, limit) ==
    LET scanned == {n \in Symbols(v) : kinds = {} \/ v.kind[n] \in kinds}
        known   == {n \in scanned : v.lines[n] > 0}
        Longer(m, n) == v.lines[m] > v.lines[n] \/ (v.lines[m] = v.lines[n] /\ m < n)
        matches == InOrderOf({n \in known : v.lines[n] >= minLines}, Longer)
        lengths == SortedValues(LAMBDA n : v.lines[n], known)
    IN  [symbols     |-> SubSeq(matches, 1, Min({limit, Len(matches)})),
         matchCount  |-> Len(matches),
         unknown     |-> Cardinality(scanned \ known),
         percentiles |-> [p \in {50, 75, 90, 99} |-> NearestRank(lengths, p)]]

(***************************************************************************)
(* The component map (code/architecture.py).  A component is the directory *)
(* of a symbol's file, `v.dir`; the edges of the view are lifted to pairs  *)
(* of components, cycles are found with Tarjan's algorithm and warnings    *)
(* are raised against the counts observed.                                 *)
(***************************************************************************)
ComponentOf(v, n) == v.dir[v.file[n]]
Members(v, c) == {n \in v.nodes : ComponentOf(v, n) = c}
Lifted(v, preds, c, d) ==
    {e \in EdgesFor(v, preds) : ComponentOf(v, e.s) = c /\ ComponentOf(v, e.o) = d}
ComponentEdges(v, preds) ==
    {<<ComponentOf(v, e.s), ComponentOf(v, e.o)>> : e \in
        {x \in EdgesFor(v, preds) : ComponentOf(v, x.s) # ComponentOf(v, x.o)}}

(* Tarjan with explicit frames (node, children not looked at yet).  A node *)
(* is numbered when its frame is pushed.                                   *)
RECURSIVE Strong(_, _)
Strong(b, succ) ==
    IF b.work = <<>> THEN b ELSE
    LET frame == Last(b.work)
        node  == frame.node
        child == Head(frame.rest)
        below == [b EXCEPT !.work[Len(b.work)].rest = Tail(@)]
        done  == [b EXCEPT !.work = Front(@),
                           !.low = IF Len(b.work) = 1 THEN @
                                   ELSE [@ EXCEPT ![b.work[Len(b.work) - 1].node] =
                                                    Min({@, b.low[node]})]]
        at    == CHOOSE i \in DOMAIN b.stack : b.stack[i] = node
        group == ToSet(SubSeq(b.stack, at, Len(b.stack)))
    IN  IF frame.rest = <<>>
        THEN Strong(IF b.low[node] # b.index[node] THEN done
                    ELSE [done EXCEPT !.stack = SubSeq(@, 1, at - 1),
                                      !.groups = IF Cardinality(group) > 1 THEN @ \cup {group}
                                                 ELSE @], succ)
        ELSE IF b.index[child] = 0
        THEN Strong([below EXCEPT !.counter = @ + 1, !.index[child] = b.counter,
                                  !.low[child] = b.counter, !.stack = Append(@, child),
                                  !.work = Append(@, [node |-> child, rest |-> Sorted(succ[child])])],
                    succ)
        ELSE Strong(IF child \in ToSet(b.stack)
                    THEN [below EXCEPT !.low[node] = Min({@, b.index[child]})]
                    ELSE below, succ)
ComponentCycles(between) ==
    LET nodes == {q[1] : q \in between} \cup {q[2] : q \in between}
        succ  == [c \in nodes |-> {q[2] : q \in {r \in between : r[1] = c}}]
        zero  == [c \in nodes |-> 0]
        Start(b, c) ==
            IF b.index[c] # 0 THEN b
            ELSE Strong([b EXCEPT !.counter = @ + 1, !.index[c] = b.counter, !.low[c] = b.counter,
                                  !.stack = Append(@, c),
                                  !.work = <<[node |-> c, rest |-> Sorted(succ[c])]>>], succ)
    IN  FoldLeft(Start, [index |-> zero, low |-> zero, counter |-> 1, stack |-> <<>>, work |-> <<>>,
                         groups |-> {}], Sorted(nodes)).groups

(* Fan-in and fan-out warnings stand at or above the 90th percentile of    *)
(* the counts observed, and never on a single edge.                        *)
Warnings(v, preds, components, communities, cycles) ==
    LET between == ComponentEdges(v, preds)
        In(c)   == MapThenSumSet(LAMBDA d : Cardinality(Lifted(v, preds, d, c)), components \ {c})
        Out(c)  == MapThenSumSet(LAMBDA d : Cardinality(Lifted(v, preds, c, d)), components \ {c})
        Cut(F(_)) == NearestRank(SortedValues(F, components), 90)
        Crossing(q) == {e \in Lifted(v, preds, q[1], q[2]) :
                          /\ "" \notin {v.lang[e.s], v.lang[e.o]}
                          /\ v.lang[e.s] # v.lang[e.o]}
    IN  {<<"dependency_cycle", g>> : g \in cycles}
        \cup {<<"high_fan_in", c>> : c \in {x \in components : In(x) > 1 /\ In(x) >= Cut(In)}}
        \cup {<<"high_fan_out", c>> : c \in {x \in components : Out(x) > 1 /\ Out(x) >= Cut(Out)}}
        \cup {<<"low_cohesion", c>> : c \in
                {x \in components : /\ Cardinality(Members(v, x)) >= 4
                                    /\ Cardinality({communities[n] : n \in Members(v, x)}) > 1
                                    /\ Lifted(v, preds, x, x) = {}}}
        \cup {<<"cross_language_edge", q>> : q \in {r \in between : Crossing(r) # {}}}
(* The gravest first, then by kind and subject: cycles by their first      *)
(* component, no two share one.                                            *)
WarningOrder == <<"dependency_cycle", "high_fan_in", "high_fan_out", "cross_language_edge", "low_cohesion">>
WarnsBefore(w, x) ==
    LET Rank(y) == CHOOSE i \in DOMAIN WarningOrder : WarningOrder[i] = y[1]
        Subject(y) == CASE y[1] = "dependency_cycle" -> <<Min(y[2])>>
                        [] y[1] = "cross_language_edge" -> y[2] [] OTHER -> <<y[2]>>
    IN  Rank(w) < Rank(x) \/ (Rank(w) = Rank(x) /\ Earlier(Subject(w), Subject(x)))
(* All four lists are cut at the limit.  How many are left out is said of  *)
(* three of them, not of the cycles, which the totals count.               *)
ArchitectureMap(v, preds, communities, limit) ==
    LET components == {ComponentOf(v, n) : n \in v.nodes}
        between    == ComponentEdges(v, preds)
        cycles     == ComponentCycles(between)
        warnings   == Warnings(v, preds, components, communities, cycles)
        cap        == Max({1, limit})
        Larger(g, h) == Cardinality(g) > Cardinality(h) \/ (Cardinality(g) = Cardinality(h) /\ Min(g) < Min(h))
    IN  [components |-> components, between |-> between,
         cycles     |-> Foremost(InOrderOf(cycles, Larger), cap),
         warnings   |-> Foremost(InOrderOf(warnings, WarnsBefore), cap),
         totals     |-> [cycles |-> Cardinality(cycles), warnings |-> Cardinality(warnings)],
         shown      |-> SubSeq(Sorted(components), 1, Min({cap, Cardinality(components)})),
         shownEdges |-> {q \in between : Cardinality({r \in between :
                            r[1] < q[1] \/ (r[1] = q[1] /\ r[2] < q[2])}) < cap},
         omitted    |-> [components |-> Max({0, Cardinality(components) - cap}),
                         edges |-> Max({0, Cardinality(between) - cap}),
                         warnings |-> Max({0, Cardinality(warnings) - cap})],
         truncated  |-> v.truncated]

(* The diagram draws the first maxNodes components shown and the edges     *)
(* between them; each has one of two styles, after the cycles listed.      *)
Diagram(map, maxNodes) ==
    LET shown  == ToSet(SubSeq(map.shown, 1, Min({maxNodes, Len(map.shown)})))
        cyclic == shown \cap UNION ToSet(map.cycles)
    IN  [edges |-> {q \in map.shownEdges : {q[1], q[2]} \subseteq shown},
         cycle |-> cyclic, plain |-> shown \ cyclic]
=============================================================================
