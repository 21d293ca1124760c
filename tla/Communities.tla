---------------------------- MODULE Communities -----------------------------
(***************************************************************************)
(* Community detection: the base pass (graph/community.py), the refinement *)
(* pass (ariadne/detector.py), the choice between the two and the split of *)
(* oversized communities (graph/split.py).                                 *)
(*                                                                         *)
(* A weighted graph is a record: `nodes` and, for each node, `order` (its  *)
(* neighbours, in the order the adjacency was filled), `adj` (their        *)
(* weights) and `loop`.  Numbers are exact where the code has floats: a    *)
(* resolution is given in quarters, a modularity is kept times (4 m)^2,    *)
(* which is the same factor for every partition of one graph.              *)
(***************************************************************************)
EXTENDS Traversals

(* `weights` is a function from {u, v} (or {u}, a loop) to a weight.       *)
Graph(nodes, weights) ==
    LET near == [n \in nodes |-> {m \in nodes \ {n} : {n, m} \in DOMAIN weights
                                                       /\ weights[{n, m}] > 0}]
    IN  [nodes |-> nodes,
         order |-> Table([n \in nodes |-> Sorted(near[n])]),
         adj   |-> Table([n \in nodes |-> Table([m \in near[n] |-> weights[{n, m}]])]),
         loop  |-> [n \in nodes |-> IF {n} \in DOMAIN weights THEN weights[{n}] ELSE 0]]
Strength(g, n) == MapThenSumSet(LAMBDA j : g.adj[n][j], DOMAIN g.adj[n]) + 2 * g.loop[n]
TotalWeight(g) == MapThenSumSet(LAMBDA n : Strength(g, n), g.nodes) \div 2

(* Internal weight of community c, and its share of all ends of edges.     *)
InternalWeight(g, comm, c) ==
    MapThenSumSet(LAMBDA n : 2 * g.loop[n]
                     + MapThenSumSet(LAMBDA j : IF comm[j] = c THEN g.adj[n][j] ELSE 0,
                                     DOMAIN g.adj[n]),
                  {n \in g.nodes : comm[n] = c}) \div 2
CommunityTotal(g, comm, c) ==
    MapThenSumSet(LAMBDA n : Strength(g, n), {n \in g.nodes : comm[n] = c})
Modularity(g, comm, res) ==
    MapThenSumSet(LAMBDA c : 16 * TotalWeight(g) * InternalWeight(g, comm, c)
                               - res * CommunityTotal(g, comm, c) * CommunityTotal(g, comm, c),
                  {comm[n] : n \in g.nodes})

(* One node's turn: it leaves its community and joins the one with the     *)
(* highest gain; only a strictly higher gain than staying moves it, and    *)
(* among equals the first in adjacency order wins.  Gains times 8 m.       *)
MoveNode(s, g, m, res, i) ==
    LET k        == Strength(g, i)
        ci       == s.comm[i]
        left     == [s.tot EXCEPT ![ci] = @ - k]
        To(c)    == MapThenSumSet(LAMBDA j : IF s.comm[j] = c THEN g.adj[i][j] ELSE 0,
                                  DOMAIN g.adj[i])
        Gain(c)  == 8 * m * To(c) - res * left[c] * k
        best     == FoldLeft(LAMBDA b, j : IF Gain(s.comm[j]) > Gain(b) THEN s.comm[j] ELSE b,
                             ci, g.order[i])
    IN  [comm     |-> [s.comm EXCEPT ![i] = best],
         tot      |-> [left EXCEPT ![best] = @ + k],
         improved |-> s.improved \/ best # ci]

RECURSIVE Settle(_, _, _, _)
Settle(s, g, m, res) ==
    LET swept == FoldLeft(LAMBDA t, i : MoveNode(t, g, m, res, i), s, Sorted(g.nodes))
    IN  IF swept.comm = s.comm THEN swept ELSE Settle(swept, g, m, res)
LocalMove(g, res) ==
    LET start == [comm |-> Table([n \in g.nodes |-> n]), tot |-> Table([n \in g.nodes |-> Strength(g, n)]),
                  improved |-> FALSE]
    IN  IF TotalWeight(g) = 0 THEN start ELSE Settle(start, g, TotalWeight(g), res)

(* Every community becomes one node, named by its number; weights inside   *)
(* it become its loop.                                                     *)
Aggregate(g, comm) ==
    LET nodes == {comm[n] : n \in g.nodes}
        Between(a, b) == MapThenSumSet(
            LAMBDA n : MapThenSumSet(LAMBDA j : IF comm[j] = b THEN g.adj[n][j] ELSE 0,
                                     DOMAIN g.adj[n]),
            {n \in g.nodes : comm[n] = a})
        Met(a) == FoldLeft(LAMBDA q, n : FoldLeft(
                               LAMBDA p, j : IF comm[j] = a \/ comm[j] \in ToSet(p) THEN p
                                             ELSE Append(p, comm[j]),
                               q, IF comm[n] = a THEN g.order[n] ELSE <<>>),
                           <<>>, Sorted(g.nodes))
    IN  [nodes |-> nodes,
         order |-> Table([a \in nodes |-> Met(a)]),
         adj   |-> Table([a \in nodes |-> Table([b \in ToSet(Met(a)) |-> Between(a, b)])]),
         loop  |-> Table([a \in nodes |-> InternalWeight(g, comm, a)])]

RECURSIVE Levels(_, _, _, _)
Onwards(g, moved, folded, q, prev, res) ==
    IF ~moved.improved \/ (prev # <<>> /\ q <= prev[1]) THEN folded
    ELSE Levels(Aggregate(g, moved.comm), folded, <<q>>, res)
LevelOf(g, moved, member, prev, res) ==
    Onwards(g, moved, Table([n \in DOMAIN member |-> moved.comm[member[n]]]), Modularity(g, moved.comm, res), prev, res)
Levels(g, member, prev, res) == LevelOf(g, LocalMove(g, res), member, prev, res)
(* Labels are compacted to 0, 1, ... in their order. *)
Compact(member) ==
    Table([n \in DOMAIN member |-> Cardinality({c \in {member[x] : x \in DOMAIN member} : c < member[n]})])
DetectCommunities(nodes, weights, res) ==
    LET g == Graph(nodes, weights)
    IN  Compact(Levels(g, [n \in nodes |-> n], <<>>, res))

(* The refinement: each community is cut into the components its own       *)
(* members form, numbered community by community.                          *)
RECURSIVE Spread(_, _, _)
Spread(g, inside, S) ==
    LET more == S \cup {m \in inside : \E n \in S : m \in DOMAIN g.adj[n]}
    IN  IF more = S THEN S ELSE Spread(g, inside, more)
Refine(g, comm) ==
    LET Part(n)   == Spread(g, {m \in g.nodes : comm[m] = comm[n]}, {n})
        Before(m, n) == comm[m] < comm[n] \/ (comm[m] = comm[n] /\ Min(Part(m)) < Min(Part(n)))
    IN  Table([n \in g.nodes |-> Cardinality({Part(m) : m \in {x \in g.nodes : Before(x, n)}})])

(* Semantic weighting: `like` is the similarity of two nodes' texts in     *)
(* tenths, 0 for all of them when no embedding model is installed.     *)
Augment(weights, like) == Table([q \in DOMAIN weights |-> weights[q] * (10 + like[q])])

(* Without a resolution the sweep keeps the refined partition with the     *)
(* highest structural modularity, then the one with fewer communities,     *)
(* then the earlier.                                                       *)
ResolutionSweep == <<2, 3, 4, 6, 8>>
Refined(nodes, detection, r) == Refine(Graph(nodes, detection), DetectCommunities(nodes, detection, r))
Preferred(g, c, d) ==
    LET Score(x) == Modularity(g, x, 4)
        Count(x) == Cardinality({x[n] : n \in g.nodes})
    IN  IF Score(c) > Score(d) \/ (Score(c) = Score(d) /\ Count(c) < Count(d)) THEN c ELSE d
Sweep5(g, nodes, detection) ==
    FoldLeft(LAMBDA best, r : IF best = <<>> THEN Refined(nodes, detection, r) ELSE Preferred(g, Refined(nodes, detection, r), best),
             <<>>, ResolutionSweep)
Ariadne(nodes, weights, like, res) ==
    IF res # 0 THEN Refined(nodes, Augment(weights, like), res)
    ELSE Sweep5(Graph(nodes, weights), nodes, Augment(weights, like))

(* Both passes run; the refined partition is returned when its reported    *)
(* modularity is strictly higher.  The base pass reports its modularity at *)
(* the resolution asked for, the refinement always at 1.                   *)
Chosen(base, refined, applied) ==
    [base |-> base, refined |-> refined, applied |-> applied, assignment |-> IF applied THEN refined ELSE base]
Compare(g, base, refined, res) ==
    Chosen(base, refined, Modularity(g, refined, 4) > Modularity(g, base, res))
Combined(nodes, weights, like, res) ==
    Compare(Graph(nodes, weights), DetectCommunities(nodes, weights, res), Ariadne(nodes, weights, like, res), res)

(* Splitting.  A round takes the oversized communities it found at its     *)
(* start, largest first; each is detected again on its own at twice the    *)
(* resolution and the split is kept when the whole partition gains.        *)
SizeOf(comm, c) == Cardinality({n \in DOMAIN comm : comm[n] = c})
Gains_Anything(g, candidate, comm, res) == candidate # comm
Gains(g, candidate, comm, res) == Modularity(g, candidate, res) > Modularity(g, comm, res)
(* The part of the lowest member keeps the number, the others get new ones. *)
Relabelled(comm, members, inner, cid) ==
    LET Lowest(p) == Min({n \in members : inner[n] = p})
        others == {inner[n] : n \in members} \ {inner[Min(members)]}
        Label(p) == IF p \notin others THEN cid
                    ELSE Max({comm[n] : n \in DOMAIN comm}) + Cardinality({r \in others : Lowest(r) <= Lowest(p)})
    IN  [n \in DOMAIN comm |-> IF n \in members THEN Label(inner[n]) ELSE comm[n]]
Adopt(s, g, candidate, res, cid) ==
    IF candidate # s.comm /\ Gains(g, candidate, s.comm, res)
    THEN [s EXCEPT !.comm = candidate, !.split = @ \cup {cid}, !.changed = TRUE]
    ELSE [s EXCEPT !.rejected = @ \cup {cid}]
SplitMembers(s, g, members, induced, res, cid) ==
    IF Cardinality(members) < 2 \/ DOMAIN induced = {} THEN [s EXCEPT !.rejected = @ \cup {cid}]
    ELSE Adopt(s, g, Relabelled(s.comm, members, DetectCommunities(members, induced, 2 * res), cid), res, cid)
SplitOne(s, g, weights, res, cid) ==
    LET members == {n \in DOMAIN s.comm : s.comm[n] = cid}
    IN  SplitMembers(s, g, members, [q \in {p \in DOMAIN weights : p \subseteq members} |-> weights[q]], res, cid)
RECURSIVE SplitRounds(_, _, _, _, _, _)
SplitRounds(s, g, weights, res, threshold, rounds) ==
    LET oversized == {c \in {s.comm[n] : n \in DOMAIN s.comm} : SizeOf(s.comm, c) > threshold}
        Larger(c, d) == SizeOf(s.comm, c) > SizeOf(s.comm, d)
                        \/ (SizeOf(s.comm, c) = SizeOf(s.comm, d) /\ c < d)
        next == FoldLeft(LAMBDA t, c : SplitOne(t, g, weights, res, c),
                         [s EXCEPT !.changed = FALSE], InOrderOf(oversized, Larger))
    IN  IF rounds = 0 \/ oversized = {} THEN s
        ELSE IF ~next.changed THEN next
        ELSE SplitRounds(next, g, weights, res, threshold, rounds - 1)
(* `share` is in hundredths of the assigned nodes. *)
SplitOversized(nodes, weights, comm, share, res, maxRounds) ==
    SplitRounds([comm |-> comm, split |-> {}, rejected |-> {}, changed |-> FALSE],
                Graph(nodes, weights), weights, res,
                Max({1, (Cardinality(DOMAIN comm) * share) \div 100}), Max({1, maxRounds}))
=============================================================================
