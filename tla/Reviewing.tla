----------------------------- MODULE Reviewing ------------------------------
(***************************************************************************)
(* What a reviewer is told: the risk of a change set (code/risk.py), the   *)
(* questions to ask (code/review.py), and refactorings to consider         *)
(* (code/refactor.py).  Numbers are exact where the code rounds: a score   *)
(* is kept as an integer over a stated denominator.                        *)
(***************************************************************************)
EXTENDS Traversals, Structure, Communities

(* The k best of S.                                                        *)
Best(S, Better(_, _), k) == {x \in S : Cardinality({y \in S : Better(y, x)}) < k}
Over(p, q) == p[1] * q[2] > q[1] * p[2]

(* Risk.  Entry points start something: a test, a route, a schedule, a     *)
(* main, whatever dispatches.                                              *)
RiskEntries(v) == {n \in v.nodes : \/ v.kind[n] \in EntryPointKinds
                                   \/ v.name[n] \in {"main", "__main__"}
                                   \/ Outgoing(v, {"routes_to", "dispatches"}, n) # {}}
Children(v, n) == Outgoing(v, {"calls", "routes_to", "dispatches"}, n)
RECURSIVE Onward(_, _, _)
Onward(v, seen, frontier) ==
    LET next == UNION {Children(v, n) : n \in frontier} \ seen
    IN  IF next = {} THEN seen ELSE Onward(v, seen \cup next, next)
EntryPointReach(v) ==
    LET from == Table([e \in RiskEntries(v) |-> Onward(v, {e}, {e}) \ {e}])
    IN  Table([n \in v.nodes |-> Cardinality({e \in DOMAIN from : n \in from[e]})])

(* The share, of N symbols, with no more than n has; nothing without a     *)
(* spread.  A score is in units of 1 / (100 N).                            *)
Placed(f, n) == IF Cardinality({f[m] : m \in DOMAIN f}) <= 1 THEN 0
                ELSE Cardinality({m \in DOMAIN f : f[m] <= f[n]})
SecurityNames == {"auth", "token"}
RiskModel(v, comm) ==
    LET reach == EntryPointReach(v)
    IN  [callers  |-> Table([n \in Symbols(v) |-> Cardinality(Incoming(v, {"calls"}, n))]),
         reach    |-> Table([n \in Symbols(v) |-> reach[n]]),
         crossing |-> Table([n \in Symbols(v) |-> Cardinality({comm[m] : m \in Near(v, Structural, n)} \ {comm[n]})]),
         untested |-> {n \in Symbols(v) : Outgoing(v, {"tested_by"}, n) \cup Incoming(v, {"tested_by"}, n) = {}},
         named    |-> {n \in Symbols(v) : v.name[n] \in SecurityNames}]
Contributions(model, n) ==
    LET N == Cardinality(DOMAIN model.callers)
    IN  <<25 * Placed(model.reach, n), 25 * Placed(model.callers, n), 20 * Placed(model.crossing, n),
          IF n \in model.untested THEN 20 * N ELSE 0, IF n \in model.named THEN 10 * N ELSE 0>>
RiskScore(model, n) == FoldLeft(+, 0, Contributions(model, n))
LevelCuts(model) ==
    LET scores == SortedValues(LAMBDA n : RiskScore(model, n), DOMAIN model.callers)
    IN  Table([i \in 1..4 |-> NearestRank(scores, <<0, 50, 75, 90>>[i])])
LevelFor(score, cuts) == Max({1} \cup {i \in 1..4 : score >= cuts[i]})

(* Churn (a count per file; empty when it was not asked for or there is no *)
(* history) takes up to 3 tenths of what is missing to 1.  A combined      *)
(* score is in units of 1 / (100 N * 10 P), P the number of files.         *)
Combined10P(v, model, churn, n) ==
    LET paths == {v.file[m] : m \in Symbols(v)}
        count == [p \in paths |-> IF p \in DOMAIN churn THEN churn[p] ELSE 0]
        s     == RiskScore(model, n)
    IN  10 * Cardinality(paths) * s
        + (100 * Cardinality(Symbols(v)) - s) * (IF DOMAIN churn = {} THEN 0 ELSE 3 * Placed(count, v.file[n]))
ChangeRisk(v, comm, files, names, churn, limit) ==
    LET model  == RiskModel(v, comm)
        chosen == {n \in Symbols(v) : v.file[n] \in files \/ n \in names \/ v.name[n] \in names}
        P      == Cardinality({v.file[m] : m \in Symbols(v)})
        Combined1(n) == Combined10P(v, model, churn, n)
        cuts   == LevelCuts(model)
        change == Max({0} \cup {Combined1(n) : n \in chosen})
        order  == InOrderOf(chosen, LAMBDA m, n : Combined1(m) > Combined1(n) \/ (Combined1(m) = Combined1(n) /\ m < n))
    IN  [model |-> model, cuts |-> cuts, score |-> [n \in Symbols(v) |-> RiskScore(model, n)],
         combined |-> [n \in chosen |-> Combined1(n)], top |-> SubSeq(order, 1, Min({Max({1, limit}), Len(order)})),
         change |-> change, level |-> LevelFor(change, [i \in 1..4 |-> 10 * P * cuts[i]]), whole |-> 100 * Cardinality(Symbols(v)) * 10 * P]

(* Questions.  The priority is a fraction: the weight of the category, in  *)
(* tenths, times the strength of the signal.                               *)
CategoryWeights == [bridge |-> 6, chokepoint |-> 10, hub |-> 7, isolated |-> 3, thin_community |-> 4,
                    unexpected_coupling |-> 8, untested_hotspot |-> 9]
CategoryOrder == <<"bridge", "chokepoint", "hub", "isolated", "thin_community", "unexpected_coupling",
                   "untested_hotspot">>
Question(category, subject, num, den) ==
    [category |-> category, subject |-> subject, priority |-> <<CategoryWeights[category] * Min({num, den}), den>>]
CategoryRank(q) == CHOOSE i \in DOMAIN CategoryOrder : CategoryOrder[i] = q.category
AskedFirst(p, q) ==
    \/ Over(p.priority, q.priority)
    \/ /\ ~Over(q.priority, p.priority)
       /\ CategoryRank(p) < CategoryRank(q) \/ (CategoryRank(p) = CategoryRank(q) /\ Earlier(p.subject, q.subject))
Leading(q, cap) == ToSet(Foremost(q, cap))
HubQuestions(v, hubs, cap) ==
    LET adj == Undirected(v, Structural)
        n   == Cardinality(v.nodes)
        Ask(category, m) == Question(category, <<m>>, HubScore(adj, hubs.betweenness, m), 10 * (n - 1) * Max({1, n - 2}) * Unit)
    IN  {Ask("chokepoint", m) : m \in Leading(hubs.chokepoints, cap)}
        \cup {Ask("hub", m) : m \in Leading(SelectSeq(hubs.hubs, LAMBDA m : m \notin ToSet(hubs.chokepoints)), cap)}
BridgeQuestions(hubs, cap) == {Question("bridge", s, 1, 1) : s \in Leading(hubs.bridges, cap)}
CouplingQuestions(couplings, cap) ==
    LET Key(c) == <<c.edge.s, c.edge.o, PredicateRank(c.edge.p)>>
        First(c, d) == c.score > d.score \/ (c.score = d.score /\ Earlier(Key(c), Key(d)))
    IN  {Question("unexpected_coupling", Key(c), c.score, 100) : c \in Best(couplings, First, cap)}
GapQuestions(v, gaps, comm, cap) ==
    LET Calls(n) == Cardinality(Incoming(v, {"calls"}, n))
        hot      == Best(gaps.hotspots.rows, LAMBDA m, n : Calls(m) > Calls(n) \/ (Calls(m) = Calls(n) /\ m < n), cap)
        Cluster(c) == {n \in v.nodes : comm[n] = c}
        Loose(c) == LET k == Cardinality(Cluster(c))
                    IN  <<k * (k - 1) - 2 * Cardinality({q \in Pairs(v, Structural) : q \subseteq Cluster(c)}), k * (k - 1)>>
        Thinner(c, d) == \/ Over(Loose(c), Loose(d))
                         \/ /\ ~Over(Loose(d), Loose(c))
                            /\ \/ Cardinality(Cluster(c)) < Cardinality(Cluster(d))
                               \/ /\ Cardinality(Cluster(c)) = Cardinality(Cluster(d))
                                  /\ Min(Cluster(c)) < Min(Cluster(d))
    IN  {Question("untested_hotspot", <<n>>, Calls(n), Max({Calls(m) : m \in hot})) : n \in hot}
        \cup {Question("isolated", <<n>>, 1, 1) : n \in Best(gaps.isolated, <, cap)}
        \cup {Question("thin_community", <<c>>, Loose(c)[1], Loose(c)[2]) : c \in Best(gaps.thin, Thinner, cap)}
Selection(hubs, gaps, all, limit) ==
    [hubs |-> hubs, gaps |-> gaps, asked |-> all, selected |-> Best(all, AskedFirst, Max({1, limit}))]
QuestionsFrom(v, comm, hubs, gaps, perCategory, limit) ==
    LET all  == HubQuestions(v, hubs, perCategory) \cup BridgeQuestions(hubs, perCategory)
                \cup CouplingQuestions(UnexpectedCoupling(v, Structural, comm), perCategory)
                \cup GapQuestions(v, gaps, comm, perCategory)
    IN  Selection(hubs, gaps, all, limit)
ReviewQuestions(v, comm, perCategory, limit) ==
    QuestionsFrom(v, comm, HubsAndBridges(v, Structural, 50, Sorted(v.nodes)), KnowledgeGaps(v, Structural, comm), perCategory, limit)

(* Refactorings.  Communities are sets of members here; a pull and a       *)
(* density are in units of 1 / PairUnit.                                   *)
Density(v, preds, S) ==
    IF Cardinality(S) < 2 THEN PairUnit
    ELSE (PairUnit * 2 * Cardinality({q \in Pairs(v, preds) : q \subseteq S})) \div (Cardinality(S) * (Cardinality(S) - 1))
Suggestion(kind, subject, num, den) == [kind |-> kind, subject |-> subject, strength |-> <<num, den>>]
Stronger(s, t) == Over(s.strength, t.strength) \/ (~Over(t.strength, s.strength) /\ Earlier(s.subject, t.subject))
Moves(v, preds, comm, perKind) ==
    LET Into(n, c) == Cardinality({m \in Near(v, preds, n) : comm[m] = c})
        Foreign(n) == {comm[m] : m \in Near(v, preds, n)} \ {comm[n]}
        pulled     == {n \in v.nodes : Degree(v, preds, n) >= 3 /\ Foreign(n) # {}}
        Target(n)  == CHOOSE c \in Foreign(n) : \A d \in Foreign(n) : Into(n, c) > Into(n, d) \/ (Into(n, c) = Into(n, d) /\ c <= d)
        Pull(n)    == (PairUnit * Into(n, Target(n))) \div Degree(v, preds, n)
        cut        == NearestRank(SortedValues(Pull, pulled), 75)
    IN  Best({Suggestion("move", <<n, Target(n)>>, Pull(n), PairUnit) :
                 n \in {m \in pulled : Pull(m) >= cut /\ 2 * Pull(m) > PairUnit}}, Stronger, perKind)
Splits(v, preds, comm, perKind) ==
    LET groups  == {{n \in v.nodes : comm[n] = c} : c \in {comm[n] : n \in v.nodes}}
        several == {G \in groups : Cardinality(G) >= 2}
        Loose(G) == Density(v, preds, G)
    IN  Best({Suggestion("split", <<Min(G)>>, PairUnit - Loose(G), PairUnit) :
                 G \in {H \in several : /\ Cardinality(H) >= NearestRank(SortedValues(Cardinality, groups), 90)
                                        /\ Loose(H) <= NearestRank(SortedValues(Loose, several), 50)}}, Stronger, perKind)
(* Crossing edges are counted from both of their ends.                     *)
Traffic_BothEnds(v, preds, A, B) ==
    MapThenSumSet(LAMBDA n : Cardinality(Near(v, preds, n) \cap (IF n \in A THEN B ELSE A)), A \cup B)
Traffic(v, preds, A, B) ==
    MapThenSumSet(LAMBDA n : Cardinality(Near(v, preds, n) \cap (IF n \in A THEN B ELSE A)), A \cup B) \div 2
Merges(v, preds, comm, perKind) ==
    LET Group(c) == {n \in v.nodes : comm[n] = c}
        ids      == {comm[n] : n \in v.nodes}
        Between(q) == Traffic(v, preds, Group(q[1]), Group(q[2]))
        joined   == {q \in ids \X ids : q[1] < q[2] /\ Between(q) >= 1}
        Inside(q) == Cardinality({p \in Pairs(v, preds) : p \subseteq Group(q[1]) \/ p \subseteq Group(q[2])})
        cut      == NearestRank(SortedValues(Between, joined), 90)
    IN  Best({Suggestion("merge", q, Between(q), Inside(q) + Between(q)) :
                 q \in {p \in joined : Between(p) >= cut /\ Between(p) >= 2}}, Stronger, perKind)
Decouples(v, preds, comm, perKind) ==
    {Suggestion("decouple", q.subject, q.priority[1], 8 * q.priority[2]) :
        q \in CouplingQuestions(UnexpectedCoupling(v, preds, comm), perKind)}
KindRank(s) == CHOOSE i \in 1..4 : <<"decouple", "merge", "move", "split">>[i] = s.kind
RefactorSuggestions(v, preds, comm, perKind, limit) ==
    LET all == Moves(v, preds, comm, perKind) \cup Splits(v, preds, comm, perKind)
               \cup Merges(v, preds, comm, perKind) \cup Decouples(v, preds, comm, perKind)
        First(s, t) == \/ Over(s.strength, t.strength)
                       \/ /\ ~Over(t.strength, s.strength)
                          /\ KindRank(s) < KindRank(t) \/ (s.kind = t.kind /\ Earlier(s.subject, t.subject))
    IN  [all |-> all, selected |-> Best(all, First, Clamp(limit, 1, 500))]

(***************************************************************************)
(* What changed: snapshots of the code graph and their difference          *)
(* (code/diff.py), the files a working copy offers (code/changes.py), and  *)
(* the history of commits, as churn (code/risk.py) and as a ground truth   *)
(* for the impact analysis (code/cochange.py).                             *)
(***************************************************************************)
(* A snapshot names things: `canon[n]` is the canonical name of entity n,  *)
(* which two entities may share.  Communities are numbered by their first  *)
(* name.                                                                   *)
SnapshotNodes(v) == {<<v.canon[n], v.kind[n], v.file[n], v.lang[n]>> : n \in v.nodes}
SnapshotEdges(v, preds) ==
    LET Key(e) == <<v.canon[e.s], v.canon[e.o], e.p>>
        edges  == EdgesFor(v, preds)
    IN  [k \in {Key(e) : e \in edges} |-> Max({e.w : e \in {x \in edges : Key(x) = k}})]
NamedCommunities(v, raw) ==
    LET names    == {v.canon[n] : n \in v.nodes}
        Id(c)    == Min({n \in v.nodes : v.canon[n] = c})
        Group(c) == {d \in names : raw[Id(d)] = raw[Id(c)]}
    IN  [c \in names |-> Cardinality({Group(d) : d \in {x \in names : Min(Group(x)) < Min(Group(c))}})]
SnapshotCommunities(v, preds, res) == NamedCommunities(v, DetectCommunities(v.nodes, PairWeights(v, preds), res))
SnapshotOf(v, preds, res) ==
    [preds |-> preds, res |-> res, nodes |-> SnapshotNodes(v), edges |-> SnapshotEdges(v, preds),
     comm |-> SnapshotCommunities(v, preds, res), truncated |-> v.truncated]
Snapshot(db, preds, res, maxNodes) == SnapshotOf(LoadCodeGraph(db, maxNodes, 200), preds, res)

(* What of a named file is read as a snapshot. *)
MaxSnapshotBytes == 64
LoadSnapshot(f) ==
    CASE ~f.inside -> "outside" [] ~f.present -> "not found" [] f.size > MaxSnapshotBytes -> "too large"
      [] ~f.json -> "not json" [] f.kind # "snapshot" \/ f.version # 1 \/ ~f.complete -> "not a snapshot"
      [] OTHER -> "loaded"

(* The difference.  Community numbers are compared by who shares one.      *)
Peers(comm, common, c) == {d \in common : comm[d] = comm[c]} \ {c}
CommunityChanges(b, a) ==
    LET common == DOMAIN b.comm \cap DOMAIN a.comm
    IN  [c \in {x \in common : Peers(b.comm, common, x) # Peers(a.comm, common, x)} |->
           [gained |-> Peers(a.comm, common, c) \ Peers(b.comm, common, c),
            lost   |-> Peers(b.comm, common, c) \ Peers(a.comm, common, c)]]
Report(d, b, a) ==
    [of |-> d, match |-> b.preds = a.preds /\ b.res = a.res, truncated |-> b.truncated \/ a.truncated,
     changed |-> \/ d.addedNodes # {} \/ d.removedNodes # {} \/ d.removedEdges # {}
                 \/ DOMAIN d.addedEdges # {} \/ DOMAIN d.changedEdges # {} \/ DOMAIN d.communities # {}]
DiffSnapshots(b, a) ==
    LET eb == DOMAIN b.edges
        ea == DOMAIN a.edges
        d  == [addedNodes |-> a.nodes \ b.nodes, removedNodes |-> b.nodes \ a.nodes,
               addedEdges |-> [k \in ea \ eb |-> a.edges[k]], removedEdges |-> eb \ ea,
               changedEdges |-> [k \in {x \in ea \cap eb : a.edges[x] # b.edges[x]} |-> <<b.edges[k], a.edges[k]>>],
               communities |-> CommunityChanges(b, a)]
    IN  Report(d, b, a)

(* A file of a working copy: `class` is "source" (a known extension or a   *)
(* configuration name), "script" or "bare" (no extension, with and without *)
(* an interpreter line) or "other"; `status` is what Subversion says of    *)
(* it, `sub` the submodule it is in (0: none), `present` whether it is on  *)
(* disk.  At most maxCandidates files without an extension are read.       *)
Wanted(paths, files, maxCandidates) ==
    LET Plain(n) == files[n].class \in {"script", "bare"}
        plain    == {n \in paths : Plain(n)}
        read     == {n \in plain : Cardinality({m \in plain : m < n}) < maxCandidates}
    IN  {n \in paths : files[n].class = "source"} \cup {n \in read : files[n].present /\ files[n].class = "script"}
Versioned(files) == {n \in DOMAIN files : files[n].status \notin {"unversioned", "deleted", "ignored"}}
ListTrackedFiles(files, sub, cap) == Wanted({n \in Versioned(files) : files[n].sub = sub}, files, cap)
ListVersionedSvn(files, cap) ==
    Wanted({n \in DOMAIN files : /\ files[n].status \notin {"unversioned", "deleted", "missing", "ignored"}
                                 /\ files[n].present}, files, cap)
(* Submodules that are checked out, and are git trees themselves.          *)
ListSubmoduleFiles(files, subs, cap) ==
    UNION {ListTrackedFiles(files, s, cap) : s \in {t \in DOMAIN subs : subs[t].initialised /\ subs[t].tree}}
WorkingCopy(copy, submodules, cap) ==
    CASE copy.vcs = "git" -> ListTrackedFiles(copy.files, 0, cap)
                             \cup (IF submodules THEN ListSubmoduleFiles(copy.files, copy.subs, cap) ELSE {})
      [] copy.vcs = "svn" -> ListVersionedSvn(copy.files, cap)
      [] OTHER -> {}

(* Commits are sets of files, the newest first.                            *)
FileChurn(commits, maxCommits) ==
    LET window == SubSeq(commits, 1, Min({Max({1, maxCommits}), Len(commits)}))
    IN  [f \in UNION ToSet(window) |-> Cardinality({i \in DOMAIN window : f \in window[i]})]
CommitFileSets(commits, maxCommits, maxFiles) ==
    SelectSeq(SubSeq(commits, 1, Min({Max({1, maxCommits}), Len(commits)})),
              LAMBDA c : Cardinality(c) >= 2 /\ Cardinality(c) <= maxFiles)
CochangeTruth(sets, support) ==
    LET Shared(a, b) == Cardinality({i \in DOMAIN sets : {a, b} \subseteq sets[i]})
        files == UNION ToSet(sets)
        With(a) == {b \in files \ {a} : Shared(a, b) >= support}
    IN  [a \in {f \in files : With(f) # {}} |-> With(a)]
PredictedFiles(v, seed, depth, maxNodes) ==
    {v.file[n] : n \in BlastRadiusForFile(v, seed, depth, maxNodes, Sorted(v.nodes))} \ {seed}
MeasureAgainstCochange(v, commits, maxFiles, support, maxSeeds, depth) ==
    LET truth == CochangeTruth(CommitFileSets(commits, 500, maxFiles), support)
        seeds == ToSet(SubSeq(Sorted(DOMAIN truth), 1, Min({Max({1, maxSeeds}), Cardinality(DOMAIN truth)})))
        Predicted(s) == PredictedFiles(v, s, depth, 500)
        Total(F(_)) == MapThenSumSet(LAMBDA s : Cardinality(F(s)), seeds)
    IN  [truth |-> truth, seeds |-> seeds, predictions |-> Total(Predicted),
         usable |-> seeds # {} /\ Total(Predicted) > 0,
         tp |-> Total(LAMBDA s : Predicted(s) \cap truth[s]),
         fp |-> Total(LAMBDA s : Predicted(s) \ truth[s]),
         fn |-> Total(LAMBDA s : truth[s] \ Predicted(s))]

(***************************************************************************)
(* Previewing and applying the renaming of a symbol (code/rename.py).      *)
(*                                                                         *)
(* Text is a sequence of pieces: the old name "old"; a longer identifier   *)
(* that starts with it, "older"; "x", anything else; and the pieces that   *)
(* delimit comments and strings: "#", "//", "open", "close", the quotes    *)
(* "quote" and "tick", a triple quote "three", a backslash "esc" and a     *)
(* newline "nl".                                                           *)
(***************************************************************************)
Profiles == [python |-> [line |-> {"#"}, block |-> FALSE, quotes |-> {"quote"}, triple |-> TRUE],
             ruby   |-> [line |-> {"#"}, block |-> FALSE, quotes |-> {"quote"}, triple |-> FALSE],
             c      |-> [line |-> {"//"}, block |-> TRUE, quotes |-> {"quote"}, triple |-> FALSE],
             ts     |-> [line |-> {"//"}, block |-> TRUE, quotes |-> {"quote", "tick"}, triple |-> FALSE],
             php    |-> [line |-> {"//", "#"}, block |-> TRUE, quotes |-> {"quote"}, triple |-> FALSE]]

(* The first piece from i on that is p, or the end of the text.            *)
Find(text, p, i) == LET at == {j \in i..Len(text) : text[j] = p} IN IF at = {} THEN Len(text) + 1 ELSE Min(at)
(* One past the end of a quoted run: the closing quote, or a newline that  *)
(* no backslash precedes, or the end.                                      *)
RECURSIVE SkipQuoted(_, _, _)
SkipQuoted(text, j, quote) ==
    IF j > Len(text) THEN Len(text) + 1
    ELSE IF text[j] = "esc" THEN SkipQuoted(text, j + 2, quote)
    ELSE IF text[j] = quote THEN j + 1
    ELSE IF text[j] = "nl" THEN j
    ELSE SkipQuoted(text, j + 1, quote)
(* mask_non_code: the positions that are blanked.                          *)
RECURSIVE Masked(_, _, _)
Masked(text, profile, i) ==
    LET To(stop) == (i..(Min({stop, Len(text) + 1}) - 1)) \cup Masked(text, profile, stop)
    IN  IF i > Len(text) THEN {}
        ELSE IF profile.block /\ text[i] = "open" THEN To(Find(text, "close", i + 1) + 1)
        ELSE IF text[i] \in profile.line THEN To(Find(text, "nl", i))
        ELSE IF profile.triple /\ text[i] = "three" THEN To(Find(text, "three", i + 1) + 1)
        ELSE IF text[i] \in profile.quotes THEN To(SkipQuoted(text, i + 1, text[i]))
        ELSE Masked(text, profile, i + 1)

(* A symbol is asked for by its canonical name, here its node, or by a     *)
(* name that one node alone has.                                           *)
ResolveTarget(v, symbol) ==
    IF symbol.node # 0 THEN {symbol.node} \cap v.nodes ELSE {n \in v.nodes : v.name[n] = symbol.name}

(* Files the graph attributes to the target, with the best confidence of   *)
(* an edge from them, in hundredths.                                       *)
InferredMin == 61
Attributions(v, target) ==
    LET referrers == Incoming(v, Structural, target)
        Weight(n) == Max({e.w : e \in {x \in v.edges : x.s = n /\ x.o = target}})
        files == {v.file[n] : n \in referrers} \cup {v.file[target]}
    IN  [f \in files |-> LET ws == {Weight(n) : n \in {m \in referrers : v.file[m] = f}}
                         IN  IF ws = {} THEN 100 ELSE Max(ws)]

(* preview_rename: where each occurrence goes.  `repo` maps a file to its  *)
(* text, its language and how it can be read.                              *)
Readable(f) == f.inside /\ f.present /\ f.size <= 10
Classify(v, target, repo, p) ==
    LET f    == repo[p[1]]
        same == {n \in v.nodes \ {target} : v.name[n] = v.name[target]}
        by   == Attributions(v, target)
    IN  IF f.lang \notin DOMAIN Profiles THEN "ambiguous"
        ELSE IF p[2] \in Masked(f.text, Profiles[f.lang], 1) THEN "commentary"
        ELSE IF same # {} \/ p[1] \notin DOMAIN by THEN "ambiguous"
        ELSE IF by[p[1]] < InferredMin THEN "ambiguous" ELSE "applicable"
PreviewRename(v, target, repo, maxFiles) ==
    LET known == {v.file[n] : n \in v.nodes}
        files == {f \in known : Cardinality({g \in known : g < f}) < maxFiles}
        read  == {f \in files : Readable(repo[f])}
        found == UNION {{<<f, i>> : i \in {j \in DOMAIN repo[f].text : repo[f].text[j] = "old"}} : f \in read}
        Of(c) == {p \in found : Classify(v, target, repo, p) = c}
    IN  [target |-> target, applicable |-> Of("applicable"), ambiguous |-> Of("ambiguous"), commentary |-> Of("commentary"),
         unreadable |-> files \ read, truncated |-> known # files]

(* _rewrite: from right to left, wherever the old name still begins.  A    *)
(* file is decoded strictly here, and written with newlines of one kind.   *)
StillThere(piece) == piece \in {"old", "older"}
Renamed(piece) == IF piece = "old" THEN "new" ELSE "newer"
Rewrite(text, edits) ==
    [i \in DOMAIN text |-> IF i \in edits /\ StillThere(text[i]) THEN Renamed(text[i]) ELSE text[i]]
EditsOf(preview, f) == {p[2] : p \in {q \in preview.applicable : q[1] = f}}
(* apply_rename goes file by file in order and stops at one it cannot      *)
(* decode.  Nothing is written without both a confirmation and the end of  *)
(* the dry run.                                                            *)
ApplyRename(preview, repo, confirm, dryRun) ==
    LET files  == {f \in {p[1] : p \in preview.applicable} : repo[f].inside /\ repo[f].present}
        bad    == {f \in files : ~repo[f].decodes}
        done   == {f \in files : \A g \in bad : f < g}
        Changed(f) == Rewrite(repo[f].text, EditsOf(preview, f)) # repo[f].text
    IN  IF dryRun \/ ~confirm THEN [repo |-> repo, written |-> {}, applied |-> FALSE, error |-> FALSE]
        ELSE [repo |-> [f \in DOMAIN repo |-> IF f \notin done \/ ~Changed(f) THEN repo[f]
                           ELSE [repo[f] EXCEPT !.text = Rewrite(@, EditsOf(preview, f)), !.eol = "lf"]],
              written |-> {f \in done : Changed(f)}, applied |-> bad = {}, error |-> bad # {}]
=============================================================================
